---- MODULE Spec2Model ----
(***************************************************************************)
(* A model of the baseline compiler: the parser-combinator kernel and the  *)
(* grammar built on it (src/unnamed/part_000, src/parser.go) and the AST   *)
(* code generator (src/ast.go).                                            *)
(*                                                                         *)
(* Emission is a tree walk through recursive Emit methods.  The walk is    *)
(* modelled with an explicit stack of pending work, `todo`: running a      *)
(* node's Emit replaces the node by what its body does next (the lines it  *)
(* prints, the children it calls Emit on, in the order of the code).       *)
(***************************************************************************)
EXTENDS Integers, Sequences, FiniteSets, TLC

VARIABLES
    prog,          \* the AST handed to result.Emit (part_000:281)
    todo,          \* pending work of the Emit calls in progress, innermost first
    out,           \* the lines printed so far through emit (ast.go:5)
    labelCounter,  \* var labelCounter (ast.go:479)
    envs,          \* the Environment objects allocated so far; envs[1] is main's
    status,        \* "emit" | "done" | "panic"
    panicMsg,      \* the value passed to panic, "" while there is none
    labels,        \* history: the texts of the labels NewLabel returned, in order
    spans,         \* history: for every Emit call that returned, its node and lines
    declared,      \* history: <<scope, name>> for every Var emitted so far
    slots,         \* history: for every Var emitted, its push line and its offset
    ptest,         \* the parser run, the text and the cursor it is run at
    presult,       \* what the run returned, "none" before it has
    many,          \* the locals of a call of Many's parse function in progress
    cpu,           \* the machine running the lines of out: registers and stack
    hist           \* history: the registers when each line was last run

emitVars == <<prog, todo, out, labelCounter, envs, status, panicMsg, labels, spans,
              declared, slots>>

parseVars == <<ptest, presult, many>>

\* What no step of emission writes.
fixed == <<prog, parseVars, cpu, hist, slots>>

runVars == <<cpu, hist>>

vars == <<emitVars, parseVars, runVars>>

(***************************************************************************)
(* The AST (ast.go).  A node is a record whose field k names its Go type.  *)
(***************************************************************************)
Number(v) == [k |-> "Number", value |-> v]
Id(v) == [k |-> "Id", value |-> v]
Not(t) == [k |-> "Not", term |-> t]
Equal(l, r) == [k |-> "Equal", left |-> l, right |-> r]
NotEqual(l, r) == [k |-> "NotEqual", left |-> l, right |-> r]
Add(l, r) == [k |-> "Add", left |-> l, right |-> r]
Subtract(l, r) == [k |-> "Subtract", left |-> l, right |-> r]
Multiply(l, r) == [k |-> "Multiply", left |-> l, right |-> r]
Divide(l, r) == [k |-> "Divide", left |-> l, right |-> r]
Call(c, as) == [k |-> "Call", callee |-> c, args |-> as]
Return(t) == [k |-> "Return", term |-> t]
Block(ss) == [k |-> "Block", statements |-> ss]
If(c, t, e) == [k |-> "If", conditional |-> c, consequence |-> t, alternative |-> e]
While(c, b) == [k |-> "While", conditional |-> c, body |-> b]
Assign(n, v) == [k |-> "Assign", name |-> n, value |-> v]
Var(n, v) == [k |-> "Var", name |-> n, value |-> v]
Function(n, ps, b) == [k |-> "Function", name |-> n, parameters |-> ps, body |-> b]
Main(ss) == [k |-> "Main", statements |-> ss]
AssertNode(c) == [k |-> "Assert", condition |-> c]

BinaryKinds == {"Equal", "NotEqual", "Add", "Subtract", "Multiply", "Divide"}

\* The children of a node, in the order their Emit is called.
Children(n) ==
    CASE n.k = "Not" -> <<n.term>>
      [] n.k \in BinaryKinds -> <<n.left, n.right>>
      [] n.k = "Call" -> n.args
      [] n.k = "Return" -> <<n.term>>
      [] n.k = "Block" -> n.statements
      [] n.k = "If" -> <<n.conditional, n.consequence, n.alternative>>
      [] n.k = "While" -> <<n.conditional, n.body>>
      [] n.k \in {"Assign", "Var"} -> <<n.value>>
      [] n.k = "Function" -> <<n.body>>
      [] n.k = "Main" -> n.statements
      [] n.k = "Assert" -> <<n.condition>>
      [] OTHER -> <<>>

RECURSIVE NodeAt(_, _)
\* The node reached from n by the child indices of path.
NodeAt(n, path) ==
    IF path = <<>> THEN n ELSE NodeAt(Children(n)[Head(path)], Tail(path))

Range(s) == {s[i] : i \in DOMAIN s}

(***************************************************************************)
(* Environment and labels (ast.go:7-17, 474-489).                          *)
(***************************************************************************)
NoLocals == [n \in {} |-> 0]

NewEnvironment == [locals |-> NoLocals, nextLocalOffset |-> 0]

\* env.locals[name] = offset
SetLocal(env, name, offset) ==
    [env EXCEPT !.locals =
        [n \in DOMAIN env.locals \cup {name} |->
            IF n = name THEN offset ELSE env.locals[n]]]

\* NewLabel without labelCounter++.
NewLabelNoIncrement(counter) == [label |-> [value |-> counter], counter |-> counter]

\* NewLabel: the label made from the counter, and the counter after the call.
NewLabel(counter) == [label |-> [value |-> counter], counter |-> counter + 1]

\* Label.String
LabelString(l) == ".L" \o ToString(l.value)

(***************************************************************************)
(* Pending work.  A "node" item is a call node.Emit(env) about to run; it  *)
(* also carries where the node sits in the program (path, the child        *)
(* indices from the root) and the function declaration whose body it is in *)
(* (scope, that declaration's path, <<>> at top level).  A "lines" item is *)
(* a run of emit calls between two child calls; "assign" and "var" are the *)
(* tails of Assign.Emit and Var.Emit; "exit" is the return of an Emit call.*)
(***************************************************************************)
NodeItem(n, env, scope, path) ==
    [t |-> "node", node |-> n, env |-> env, scope |-> scope, path |-> path]

LinesItem(ls) == [t |-> "lines", lines |-> ls]

ExitItem(it, first) ==
    [t |-> "exit", node |-> it.node, path |-> it.path, scope |-> it.scope,
     first |-> first]

\* The i-th child of the node of item it, emitted with the same environment.
ChildItem(it, i) ==
    NodeItem(Children(it.node)[i], it.env, it.scope, Append(it.path, i))

Top == Head(todo)

Rest == Tail(todo)

Running(kind) ==
    /\ status = "emit"
    /\ todo # <<>>
    /\ Top.t = "node"
    /\ Top.node.k = kind

\* What an Emit call that has returned leaves in the history.
Span(it, first, last) ==
    [node |-> it.node, path |-> it.path, scope |-> it.scope,
     first |-> first, last |-> last]

Panic(msg) ==
    /\ status' = "panic"
    /\ panicMsg' = msg
    /\ UNCHANGED <<fixed, todo, out, labelCounter, envs, labels, spans, declared>>

\* Number.Emit
EmitNumber ==
    /\ Running("Number")
    /\ out' = Append(out, "  ldr r0, =" \o ToString(Top.node.value))
    /\ todo' = Rest
    /\ spans' = Append(spans, Span(Top, Len(out) + 1, Len(out) + 1))
    /\ UNCHANGED <<fixed, labelCounter, envs, status, panicMsg, labels, declared>>

\* Id.Emit
EmitId ==
    /\ Running("Id")
    /\ IF Top.node.value \in DOMAIN envs[Top.env].locals
         THEN /\ out' = Append(out, "  ldr r0, [fp, #"
                                \o ToString(envs[Top.env].locals[Top.node.value])
                                \o "]")
              /\ todo' = Rest
              /\ spans' = Append(spans, Span(Top, Len(out) + 1, Len(out) + 1))
              /\ UNCHANGED <<fixed, labelCounter, envs, status, panicMsg, labels,
                             declared>>
         ELSE Panic("Undefined variable: " \o Top.node.value)

\* The steps of an Emit body that only calls children and prints lines:
\* `now` is printed at once, `then` is what is left to do before returning.
Expand(now, then) ==
    /\ out' = out \o now
    /\ todo' = then \o <<ExitItem(Top, Len(out) + 1)>> \o Rest
    /\ UNCHANGED <<fixed, labelCounter, envs, status, panicMsg, labels, spans,
                   declared>>

\* Not.Emit
EmitNot ==
    /\ Running("Not")
    /\ Expand(<<>>, <<ChildItem(Top, 1),
                      LinesItem(<<"  cmp r0, #0", "  moveq r0, #1", "  movne r0, #0">>)>>)

\* A binary node whose Emit called the right operand's Emit first.
BinaryRightFirst(combine) ==
    Expand(<<>>, <<ChildItem(Top, 2),
                   LinesItem(<<"  push {r0, ip}">>),
                   ChildItem(Top, 1),
                   LinesItem(<<"  pop {r1, ip}">> \o combine)>>)

\* The shape shared by the six binary nodes: left, push, right, pop, combine.
Binary(combine) ==
    Expand(<<>>, <<ChildItem(Top, 1),
                   LinesItem(<<"  push {r0, ip}">>),
                   ChildItem(Top, 2),
                   LinesItem(<<"  pop {r1, ip}">> \o combine)>>)

\* Equal.Emit
EmitEqual ==
    /\ Running("Equal")
    /\ Binary(<<"  cmp r0, r1", "  moveq r0, #1", "  movne r0, #0">>)

\* NotEqual.Emit
EmitNotEqual ==
    /\ Running("NotEqual")
    /\ Binary(<<"  cmp r0, r1", "  movne r0, #1", "  moveq r0, #0">>)

\* Add.Emit
EmitAdd ==
    /\ Running("Add")
    /\ Binary(<<"  add r0, r1, r0">>)

\* Subtract.Emit
EmitSubtract ==
    /\ Running("Subtract")
    /\ Binary(<<"  sub r0, r1, r0">>)

\* Multiply.Emit
EmitMultiply ==
    /\ Running("Multiply")
    /\ Binary(<<"  mul r0, r1, r0">>)

\* Divide.Emit
EmitDivide ==
    /\ Running("Divide")
    /\ Binary(<<"  udiv r0, r1, r0">>)

RECURSIVE CallArgsReversed(_, _)
\* The loop of Call.Emit, were the slots handed out from the last one down.
CallArgsReversed(it, i) ==
    IF i > Len(it.node.args)
      THEN <<>>
      ELSE <<ChildItem(it, i),
             LinesItem(<<"  str r0, [sp, #"
                         \o ToString(4 * (Len(it.node.args) - i)) \o "]">>)>>
           \o CallArgsReversed(it, i + 1)

RECURSIVE CallArgs(_, _)
\* The loop of Call.Emit over the arguments from the i-th on: each argument's
\* Emit, then the store of r0 into its slot of the scratch area.
CallArgs(it, i) ==
    IF i > Len(it.node.args)
      THEN <<>>
      ELSE <<ChildItem(it, i),
             LinesItem(<<"  str r0, [sp, #" \o ToString(4 * (i - 1)) \o "]">>)>>
           \o CallArgs(it, i + 1)

\* The arity check made only after the scratch area is reserved.
CallOverflowLate ==
    /\ status' = "panic"
    /\ panicMsg' = "More than 4 arguments are not supported"
    /\ out' = Append(out, "  sub sp, sp, #16")
    /\ UNCHANGED <<fixed, todo, labelCounter, envs, labels, spans, declared>>

\* The last branch of Call.Emit: count is none of 0, 1, 2..4.
CallOverflow == Panic("More than 4 arguments are not supported")

\* Call.Emit, were the scratch area of 2 to 4 arguments not reserved.
EmitCallNoScratch ==
    /\ Running("Call")
    /\ LET count == Len(Top.node.args)
           bl == "  bl " \o Top.node.callee
       IN  IF count = 0
             THEN Expand(<<bl>>, <<>>)
             ELSE IF count = 1
               THEN Expand(<<>>, <<ChildItem(Top, 1), LinesItem(<<bl>>)>>)
               ELSE IF count >= 2 /\ count <= 4
                 THEN Expand(<<>>,
                             CallArgs(Top, 1)
                             \o <<LinesItem(<<"  pop {r0, r1, r2, r3}", bl>>)>>)
                 ELSE CallOverflow

\* Call.Emit
EmitCall ==
    /\ Running("Call")
    /\ LET count == Len(Top.node.args)
           bl == "  bl " \o Top.node.callee
       IN  IF count = 0
             THEN Expand(<<bl>>, <<>>)
             ELSE IF count = 1
               THEN Expand(<<>>, <<ChildItem(Top, 1), LinesItem(<<bl>>)>>)
               ELSE IF count >= 2 /\ count <= 4
                 THEN Expand(<<"  sub sp, sp, #16">>,
                             CallArgs(Top, 1)
                             \o <<LinesItem(<<"  pop {r0, r1, r2, r3}", bl>>)>>)
                 ELSE CallOverflow

\* Return.Emit
EmitReturn ==
    /\ Running("Return")
    /\ Expand(<<>>, <<ChildItem(Top, 1),
                      LinesItem(<<"  mov sp, fp", "  pop {fp, pc}">>)>>)

\* Block.Emit
EmitBlock ==
    /\ Running("Block")
    /\ Expand(<<>>, [i \in 1..Len(Top.node.statements) |-> ChildItem(Top, i)])

\* If.Emit
EmitIf ==
    /\ Running("If")
    /\ LET l1 == NewLabel(labelCounter)
           l2 == NewLabel(l1.counter)
           ifFalseLabel == LabelString(l1.label)
           endIfLabel == LabelString(l2.label)
       IN  /\ labelCounter' = l2.counter
           /\ labels' = labels \o <<ifFalseLabel, endIfLabel>>
           /\ todo' = <<ChildItem(Top, 1),
                        LinesItem(<<"  cmp r0, #0", "  beq " \o ifFalseLabel>>),
                        ChildItem(Top, 2),
                        LinesItem(<<"  b " \o endIfLabel, ifFalseLabel \o ":">>),
                        ChildItem(Top, 3),
                        LinesItem(<<endIfLabel \o ":">>),
                        ExitItem(Top, Len(out) + 1)>> \o Rest
    /\ UNCHANGED <<fixed, out, envs, status, panicMsg, spans, declared>>

\* While.Emit
EmitWhile ==
    /\ Running("While")
    /\ LET l1 == NewLabel(labelCounter)
           l2 == NewLabel(l1.counter)
           loopStart == LabelString(l1.label)
           loopEnd == LabelString(l2.label)
       IN  /\ labelCounter' = l2.counter
           /\ labels' = labels \o <<loopStart, loopEnd>>
           /\ out' = Append(out, loopStart \o ":")
           /\ todo' = <<ChildItem(Top, 1),
                        LinesItem(<<"  cmp r0, #0", "  beq " \o loopEnd>>),
                        ChildItem(Top, 2),
                        LinesItem(<<"  b " \o loopStart, loopEnd \o ":">>),
                        ExitItem(Top, Len(out) + 1)>> \o Rest
    /\ UNCHANGED <<fixed, envs, status, panicMsg, spans, declared>>

\* Assign.Emit up to the return of a.value.Emit
EmitAssign ==
    /\ Running("Assign")
    /\ Expand(<<>>, <<ChildItem(Top, 1),
                      [t |-> "assign", name |-> Top.node.name, env |-> Top.env,
                       scope |-> Top.scope]>>)

\* Assign.Emit after a.value.Emit: the lookup and the store
AssignStore ==
    /\ status = "emit"
    /\ todo # <<>>
    /\ Top.t = "assign"
    /\ IF Top.name \in DOMAIN envs[Top.env].locals
         THEN /\ out' = Append(out, "  str r0, [fp, #"
                                \o ToString(envs[Top.env].locals[Top.name]) \o "]")
              /\ todo' = Rest
              /\ UNCHANGED <<fixed, labelCounter, envs, status, panicMsg, labels,
                             spans, declared>>
         ELSE Panic("Undefined variable: " \o Top.name)

\* Var.Emit up to the return of v.value.Emit
EmitVar ==
    /\ Running("Var")
    /\ Expand(<<>>, <<ChildItem(Top, 1),
                      [t |-> "var", name |-> Top.node.name, env |-> Top.env,
                       scope |-> Top.scope]>>)

\* env.locals[v.name] = env.nextLocalOffset - 4; env.nextLocalOffset -= 8
BindLocal(env, name) ==
    [SetLocal(env, name, env.nextLocalOffset - 4)
        EXCEPT !.nextLocalOffset = env.nextLocalOffset - 8]

\* Var.Emit after v.value.Emit: the push and the new local
VarBind ==
    /\ status = "emit"
    /\ todo # <<>>
    /\ Top.t = "var"
    /\ out' = Append(out, "  push {r0, ip}")
    /\ envs' = [envs EXCEPT ![Top.env] = BindLocal(envs[Top.env], Top.name)]
    /\ declared' = declared \cup {<<Top.scope, Top.name>>}
    /\ slots' = Append(slots, [line |-> Len(out) + 1, env |-> Top.env,
                               name |-> Top.name,
                               offset |-> envs'[Top.env].locals[Top.name]])
    /\ todo' = Rest
    /\ UNCHANGED <<prog, parseVars, runVars, labelCounter, status, panicMsg, labels,
                   spans>>

\* Function.emitPrologue
EmitPrologue == <<"  push {fp, lr}", "  mov fp, sp", "  push {r0, r1, r2, r3}">>

\* emitEpilogue without the default return value.
EmitEpilogueNoDefault == <<"  mov sp, fp", "  pop {fp, pc}">>

\* Function.emitEpilogue
EmitEpilogue == <<"  mov sp, fp", "  mov r0, #0", "  pop {fp, pc}">>

RECURSIVE BindParameters(_, _, _)
\* The loop of setUpEnvironment from the i-th parameter on (1-based here,
\* 0-based in the code): env.locals[param] = 4*i - 16.
BindParameters(env, parameters, i) ==
    IF i > Len(parameters)
      THEN env
      ELSE BindParameters(SetLocal(env, parameters[i], 4 * (i - 1) - 16),
                          parameters, i + 1)

\* Function.setUpEnvironment
SetUpEnvironment(f) ==
    [BindParameters(NewEnvironment, f.parameters, 1) EXCEPT !.nextLocalOffset = -20]

\* f.body.Emit(env) in place of f.body.Emit(funcEnv).
FunctionBodyEnvOfCaller(caller, funcEnv) == caller

\* The environment f.body.Emit is called with, funcEnv: the one
\* setUpEnvironment has just allocated (caller is the caller's).
FunctionBodyEnv(caller, funcEnv) == funcEnv

\* Function.Emit
EmitFunction ==
    /\ Running("Function")
    /\ IF Len(Top.node.parameters) > 4
         THEN Panic("More than 4 params is not supported")
         ELSE /\ out' = out \o <<"", ".global " \o Top.node.name, Top.node.name \o ":">>
                            \o EmitPrologue
              /\ envs' = Append(envs, SetUpEnvironment(Top.node))
              /\ todo' = <<NodeItem(Top.node.body,
                                    FunctionBodyEnv(Top.env, Len(envs) + 1),
                                    Top.path, Append(Top.path, 1)),
                           LinesItem(EmitEpilogue),
                           ExitItem(Top, Len(out) + 1)>> \o Rest
              /\ UNCHANGED <<fixed, labelCounter, status, panicMsg, labels, spans,
                             declared>>

\* Main.Emit
EmitMain ==
    /\ Running("Main")
    /\ out' = out \o <<".global main", "main:", "  push {fp, lr}">>
    /\ todo' = [i \in 1..Len(Top.node.statements) |->
                   NodeItem(Top.node.statements[i], Top.env, Top.path,
                            Append(Top.path, i))]
               \o <<LinesItem(<<"  mov r0, #0", "  pop {fp, pc}">>),
                    ExitItem(Top, Len(out) + 1)>> \o Rest
    /\ UNCHANGED <<fixed, labelCounter, envs, status, panicMsg, labels, spans,
                   declared>>

\* Assert.Emit
EmitAssert ==
    /\ Running("Assert")
    /\ Expand(<<>>, <<ChildItem(Top, 1),
                      LinesItem(<<"  cmp r0, #1", "  moveq r0, #'.'",
                                  "  movne r0, #'F'", "  bl putchar">>)>>)

\* The emit calls an Emit body makes between two calls of its children.
EmitLines ==
    /\ status = "emit"
    /\ todo # <<>>
    /\ Top.t = "lines"
    /\ out' = out \o Top.lines
    /\ todo' = Rest
    /\ UNCHANGED <<fixed, labelCounter, envs, status, panicMsg, labels, spans,
                   declared>>

\* An Emit call returns to its caller.
EmitReturns ==
    /\ status = "emit"
    /\ todo # <<>>
    /\ Top.t = "exit"
    /\ spans' = Append(spans, Span(Top, Top.first, Len(out)))
    /\ todo' = Rest
    /\ UNCHANGED <<fixed, out, labelCounter, envs, status, panicMsg, labels,
                   declared>>

\* result.Emit(NewEnvironment()) has returned to main (part_000:281-283).
EmitDone ==
    /\ status = "emit"
    /\ todo = <<>>
    /\ status' = "done"
    /\ UNCHANGED <<fixed, todo, out, labelCounter, envs, panicMsg, labels, spans,
                   declared>>

EmitNext ==
    \/ EmitNumber \/ EmitId \/ EmitNot
    \/ EmitEqual \/ EmitNotEqual \/ EmitAdd \/ EmitSubtract \/ EmitMultiply
    \/ EmitDivide
    \/ EmitCall \/ EmitReturn \/ EmitBlock \/ EmitIf \/ EmitWhile
    \/ EmitAssign \/ AssignStore \/ EmitVar \/ VarBind
    \/ EmitFunction \/ EmitMain \/ EmitAssert
    \/ EmitLines \/ EmitReturns \/ EmitDone

(***************************************************************************)
(* The programs emission is checked on: trees the parser can build         *)
(* (a Block of statements at the root, a Block as every function body).    *)
(***************************************************************************)
MaxParams == 5
MaxArgs == 5

ParamNames == <<"a", "b", "c", "d", "e", "f", "g", "h">>

Params(n) == SubSeq(ParamNames, 1, n)

\* The i-th argument of the calls tried: a binary operator, a nested call
\* and variable reads among plain numbers.
Arg(i) ==
    CASE i = 1 -> Add(Id("a"), Number(2))
      [] i = 2 -> Call("h", <<Number(3), Subtract(Number(9), Number(4))>>)
      [] i = 3 -> Id("a")
      [] OTHER -> Number(i)

\* n arguments, the list Arg(1) .. Arg(n) rotated by r.
Args(n, r) == [i \in 1..n |-> Arg(((i + r - 1) % n) + 1)]

Calls == {Call("g", Args(n, r)) : n \in 0..MaxArgs, r \in 0..1}

Exprs ==
    {Number(1), Id("a"), Id("x"), Id("y"),
     Not(Id("a")), Equal(Id("a"), Number(1)), NotEqual(Id("x"), Number(0)),
     Add(Number(1), Id("x")), Subtract(Id("a"), Id("x")),
     Multiply(Number(2), Number(3)), Divide(Id("a"), Number(2)),
     AssertNode(Equal(Id("a"), Number(1)))}
    \cup Calls

Simple ==
    {Return(Id("a")), Return(Number(1)), Return(Id("x")),
     Var("x", Number(1)), Var("y", Id("x")), Var("a", Number(7)),
     Assign("x", Number(2)), Assign("a", Id("x")), Assign("y", Id("a"))}
    \cup Exprs

Inner == {Return(Id("a")), Var("x", Number(1)), Assign("x", Number(2)), Id("x"),
          Id("y"), Block(<<>>)}

Conds == {Id("a"), NotEqual(Id("x"), Number(0))}

Compound ==
    {If(c, s, t) : c \in Conds, s \in Inner, t \in {Id("x"), Var("y", Number(2))}}
    \cup {While(c, s) : c \in Conds, s \in Inner}
    \cup {Block(<<s, t>>) : s \in Inner, t \in {Id("x"), Id("y")}}
    \cup {Function("g", Params(n), Block(<<s>>)) : n \in {0, 1, 2}, s \in Inner}
    \cup {Main(<<s>>) : s \in Inner}
    \cup {Main(<<Var("y", Number(1)), Id("a")>>),
          If(Id("a"), While(Id("a"), If(Id("a"), Id("a"), Id("a"))),
             If(Id("a"), Id("a"), While(Id("a"), Id("a")))),
          Function("g", <<"b">>, Block(<<Function("k", <<"x">>, Block(<<Id("x")>>)),
                                        Id("x")>>))}

Stmts == Simple \cup Compound

\* One function, any number of parameters, one statement.
Programs1 ==
    {Block(<<Function("f", Params(n), Block(<<s>>))>>) :
        n \in 0..MaxParams, s \in Stmts}

\* One function of two parameters, two statements.
Programs2 ==
    {Block(<<Function("f", Params(2), Block(<<s, t>>))>>) : s \in Stmts, t \in Stmts}

TopStmts ==
    {Var("x", Number(1)), Id("x"), Assign("x", Number(2)),
     Call("f", Args(5, 0)), If(Id("x"), Id("x"), Id("x")),
     Main(<<Id("x")>>), Main(<<Var("x", Number(1))>>), Main(<<>>),
     Main(<<Return(Number(0))>>),
     Function("f", Params(1), Block(<<Id("x")>>)),
     Function("f", Params(1), Block(<<Var("x", Id("a"))>>)),
     Function("f", Params(5), Block(<<>>)),
     Function("f", <<"a", "a">>, Block(<<Id("a")>>)),
     Function("f", Params(1), Block(<<While(Id("a"), If(Id("a"), Id("a"), Id("a")))>>))}

\* What the top level may hold besides functions, and pairs of declarations.
Programs3 ==
    {Block(<<>>)} \cup {Block(<<s>>) : s \in TopStmts}
    \cup {Block(<<s, t>>) : s \in TopStmts, t \in TopStmts}

Programs == Programs1 \cup Programs2 \cup Programs3

\* main() after parsing: result.Emit(NewEnvironment()) is about to run on
\* one of the programs given.
Compiling(programs) ==
    /\ prog \in programs
    /\ todo = <<NodeItem(prog, 1, <<>>, <<>>)>>
    /\ out = <<>>
    /\ labelCounter = 0
    /\ envs = <<NewEnvironment>>
    /\ status = "emit"
    /\ panicMsg = ""
    /\ labels = <<>>
    /\ spans = <<>>
    /\ declared = {}
    /\ slots = <<>>
    /\ ptest = [mode |-> "none"]
    /\ presult = [r |-> "none"]
    /\ many = [pc |-> "idle"]
    /\ cpu = [state |-> "off"]
    /\ hist = <<>>

Init == Compiling(Programs)

Next == EmitNext

Spec == Init /\ [][Next]_vars

(***************************************************************************)
(* The cursor and the primitive match (part_000:15-47).  A Go string is    *)
(* modelled as the sequence of its characters, a Source as the record of   *)
(* its text and its 0-based index.                                         *)
(***************************************************************************)
NewSource(str, index) == [str |-> str, index |-> index]

RECURSIVE Text(_)
\* The characters of a Go string as one TLA+ string.
Text(cs) == IF cs = <<>> THEN "" ELSE Head(cs) \o Text(Tail(cs))

Digit == {"0", "1", "2", "3", "4", "5", "6", "7", "8", "9"}

Letter ==
    {"a", "b", "c", "d", "e", "f", "g", "h", "i", "j", "k", "l", "m", "n", "o", "p",
     "q", "r", "s", "t", "u", "v", "w", "x", "y", "z",
     "A", "B", "C", "D", "E", "F", "G", "H", "I", "J", "K", "L", "M", "N", "O", "P",
     "Q", "R", "S", "T", "U", "V", "W", "X", "Y", "Z"}

WordChar == Letter \cup Digit \cup {"_"}

Blank == {" ", "\n", "\r", "\t"}

\* Parts of a compiled pattern: a literal character, one character of a
\* class, a greedy or lazy repetition of a class (min times or more), the
\* word boundary \b.  any = TRUE is the class of every character ((?s).),
\* except = S the class of every character not in S (. is except {"\n"}).
Lit(c) == [e |-> "rep", set |-> {c}, any |-> FALSE, min |-> 1, max |-> 1, lazy |-> FALSE]
Rep(set, min, max) ==
    [e |-> "rep", set |-> set, any |-> FALSE, min |-> min, max |-> max, lazy |-> FALSE]
Dot(exclude, lazy) ==
    [e |-> "rep", set |-> exclude, any |-> TRUE, min |-> 0, max |-> -1, lazy |-> lazy]
WordBoundary == [e |-> "wordb"]

Lits(cs) == [i \in DOMAIN cs |-> Lit(cs[i])]

\* regexp.Compile("^" + cleanPattern) for the patterns of the grammar
\* (parser.go:7-69); the leading ^ is the anchoring at position 0 that
\* MatchAt does.  <<>> stands for a pattern that is not one of them.
Compile(pattern) ==
    CASE pattern = "[ \\n\\r\\t]+" -> <<Rep(Blank, 1, -1)>>
      [] pattern = "//.*" -> <<Lit("/"), Lit("/"), Dot({"\n"}, FALSE)>>
      [] pattern = "(?s)/\\*.*?\\*/" ->
            <<Lit("/"), Lit("*"), Dot({}, TRUE), Lit("*"), Lit("/")>>
      [] pattern = "function\\b" ->
            Lits(<<"f", "u", "n", "c", "t", "i", "o", "n">>) \o <<WordBoundary>>
      [] pattern = "if\\b" -> Lits(<<"i", "f">>) \o <<WordBoundary>>
      [] pattern = "while\\b" -> Lits(<<"w", "h", "i", "l", "e">>) \o <<WordBoundary>>
      [] pattern = "else\\b" -> Lits(<<"e", "l", "s", "e">>) \o <<WordBoundary>>
      [] pattern = "return\\b" ->
            Lits(<<"r", "e", "t", "u", "r", "n">>) \o <<WordBoundary>>
      [] pattern = "var\\b" -> Lits(<<"v", "a", "r">>) \o <<WordBoundary>>
      [] pattern = "," -> <<Lit(",")>>
      [] pattern = ";" -> <<Lit(";")>>
      [] pattern = "\\(" -> <<Lit("(")>>
      [] pattern = "\\)" -> <<Lit(")")>>
      [] pattern = "\\{" -> <<Lit("{")>>
      [] pattern = "\\}" -> <<Lit("}")>>
      [] pattern = "[0-9]+" -> <<Rep(Digit, 1, -1)>>
      [] pattern = "[a-zA-Z_][a-zA-Z0-9_]*" ->
            <<Rep(Letter \cup {"_"}, 1, 1), Rep(WordChar, 0, -1)>>
      [] pattern = "!" -> <<Lit("!")>>
      [] pattern = "==" -> <<Lit("="), Lit("=")>>
      [] pattern = "!=" -> <<Lit("!"), Lit("=")>>
      [] pattern = "\\+" -> <<Lit("+")>>
      [] pattern = "-" -> <<Lit("-")>>
      [] pattern = "\\*" -> <<Lit("*")>>
      [] pattern = "/" -> <<Lit("/")>>
      [] pattern = "=" -> <<Lit("=")>>
      [] OTHER -> <<>>

InClass(part, c) == IF part.any THEN c \notin part.set ELSE c \in part.set

RECURSIVE Run(_, _, _)
\* How many characters of text from position pos (0-based) on are in the
\* class of part.
Run(part, text, pos) ==
    IF pos < Len(text) /\ InClass(part, text[pos + 1])
      THEN 1 + Run(part, text, pos + 1)
      ELSE 0

RECURSIVE MatchAt(_, _, _, _)
RECURSIVE TryRep(_, _, _, _, _, _)
\* The end of the leftmost-first match of parts[i..] on text at pos, -1 if
\* there is none.
MatchAt(parts, i, text, pos) ==
    IF i > Len(parts)
      THEN pos
      ELSE IF parts[i].e = "wordb"
        THEN IF (pos > 0 /\ text[pos] \in WordChar)
                  # (pos < Len(text) /\ text[pos + 1] \in WordChar)
               THEN MatchAt(parts, i + 1, text, pos)
               ELSE -1
        ELSE LET run == Run(parts[i], text, pos)
                 most == IF parts[i].max = -1 \/ run < parts[i].max
                           THEN run ELSE parts[i].max
             IN  IF most < parts[i].min
                   THEN -1
                   ELSE TryRep(parts, i, text, pos,
                               IF parts[i].lazy THEN parts[i].min ELSE most, most)

\* A repetition tries its counts in order of preference, n first: downwards
\* to min when greedy, upwards to most when lazy.
TryRep(parts, i, text, pos, n, most) ==
    LET end == MatchAt(parts, i + 1, text, pos + n)
    IN  IF end # -1
          THEN end
          ELSE IF parts[i].lazy
            THEN IF n < most THEN TryRep(parts, i, text, pos, n + 1, most) ELSE -1
            ELSE IF n > parts[i].min
              THEN TryRep(parts, i, text, pos, n - 1, most)
              ELSE -1

(***************************************************************************)
(* Parse results and parsers (part_000:10-142).  A Parser value is         *)
(* modelled by the combinator call that built it; the callbacks handed to  *)
(* Bind are closures, modelled as records of the function literal (fn) and *)
(* the variables it captured.                                              *)
(***************************************************************************)
Nil == [r |-> "nil"]

ParseResult(value, source) == [r |-> "ok", value |-> value, source |-> source]

\* A panic unwinding through the parse functions.
Panicked(msg) == [r |-> "panic", msg |-> msg]

\* Source.Match
Match(s, pattern) ==
    IF s.index >= Len(s.str)
      THEN Nil
      ELSE LET regex == Compile(pattern)
               remaining == SubSeq(s.str, s.index + 1, Len(s.str))
               end == MatchAt(regex, 1, remaining, 0)
           IN  IF regex = <<>>
                 THEN Panicked("regexp: Compile: " \o pattern)
                 ELSE IF end = -1
                   THEN Nil
                   ELSE ParseResult(SubSeq(remaining, 1, end),
                                    NewSource(s.str, s.index + end))

\* The zero Parser, whose Parse is nil.
NilParser == [k |-> "nil"]

Regexp(pattern) == [k |-> "Regexp", pattern |-> pattern]
Constant(value) == [k |-> "Constant", value |-> value]
Error(message) == [k |-> "Error", message |-> message]
Or(parsers) == [k |-> "Or", parsers |-> parsers]
Many(parser) == [k |-> "Many", parser |-> parser]
Bind(parser, callback) == [k |-> "Bind", parser |-> parser, callback |-> callback]
And(parser1, parser2) == Bind(parser1, [fn |-> "And", parser2 |-> parser2])
Map(parser, callback) == Bind(parser, [fn |-> "Map", callback |-> callback])
Maybe(parser) == [k |-> "Maybe", parser |-> parser]

(***************************************************************************)
(* The grammar (parser.go).                                                *)
(***************************************************************************)
whitespace == Regexp("[ \\n\\r\\t]+")

comments == Or(<<Regexp("//.*"), Regexp("(?s)/\\*.*?\\*/")>>)

ignored == Many(Or(<<whitespace, comments>>))

token(pattern) == Bind(Regexp(pattern), [fn |-> "token"])

FUNCTION == token("function\\b")
IF_ == token("if\\b")
WHILE == token("while\\b")
ELSE_ == token("else\\b")
RETURN == token("return\\b")
VAR == token("var\\b")
COMMA == token(",")
SEMICOLON == token(";")
LEFT_PAREN == token("\\(")
RIGHT_PAREN == token("\\)")
LEFT_BRACE == token("\\{")
RIGHT_BRACE == token("\\}")
NUMBER == Map(token("[0-9]+"), [fn |-> "NUMBER"])
ID == token("[a-zA-Z_][a-zA-Z0-9_]*")
idParser == Map(ID, [fn |-> "idParser"])
NOT == Map(token("!"), [fn |-> "NOT"])
EQUAL == Map(token("=="), [fn |-> "operator", k |-> "Equal"])
NOT_EQUAL == Map(token("!="), [fn |-> "operator", k |-> "NotEqual"])
PLUS == Map(token("\\+"), [fn |-> "operator", k |-> "Add"])
MINUS == Map(token("-"), [fn |-> "operator", k |-> "Subtract"])
STAR == Map(token("\\*"), [fn |-> "operator", k |-> "Multiply"])
SLASH == Map(token("/"), [fn |-> "operator", k |-> "Divide"])
ASSIGN_OP == Map(token("="), [fn |-> "operator", k |-> "Assign"])

\* The parsers of the init function: each looks its grammar up when run.
expression == [k |-> "Func", name |-> "expression"]

statement == [k |-> "Func", name |-> "statement"]

parser == Map(And(ignored, Many(statement)), [fn |-> "parser"])

\* args <- (expression (COMMA expression)*)?
args == Or(<<Bind(expression, [fn |-> "args.1"]), Constant(<<>>)>>)

\* call <- ID LEFT_PAREN args RIGHT_PAREN
call == Bind(ID, [fn |-> "call.1"])

\* atom <- call / ID / NUMBER / LEFT_PAREN expression RIGHT_PAREN
atom == Or(<<call, idParser, NUMBER,
             Bind(And(LEFT_PAREN, expression), [fn |-> "atom.1"])>>)

\* unary <- NOT? atom
unary == Bind(Maybe(NOT), [fn |-> "unary.1"])

infix(operatOr, termParser) ==
    Bind(termParser, [fn |-> "infix.1", operatOr |-> operatOr, termParser |-> termParser])

\* product <- unary ((STAR / SLASH) unary)*
product == infix(Or(<<STAR, SLASH>>), unary)

\* sum <- product ((PLUS / MINUS) product)*
sum == infix(Or(<<PLUS, MINUS>>), product)

\* comparison <- sum ((EQUAL / NOT_EQUAL) sum)*
getComparisonParser == infix(Or(<<EQUAL, NOT_EQUAL>>), sum)

\* parameters <- (ID (COMMA ID)*)?
parameters == Or(<<Bind(ID, [fn |-> "parameters.1"]), Constant(<<>>)>>)

returnStatement == Bind(And(RETURN, expression), [fn |-> "returnStatement.1"])

expressionStatement == Bind(expression, [fn |-> "expressionStatement.1"])

ifStatement == Bind(And(And(IF_, LEFT_PAREN), expression), [fn |-> "ifStatement.1"])

whileStatement ==
    Bind(And(And(WHILE, LEFT_PAREN), expression), [fn |-> "whileStatement.1"])

varStatement == Bind(And(VAR, ID), [fn |-> "varStatement.1"])

assignmentStatement == Bind(ID, [fn |-> "assignmentStatement.1"])

blockStatement == Bind(And(LEFT_BRACE, Many(statement)), [fn |-> "blockStatement.1"])

\* The name test of functionStatement: a declaration named __main is a Main.
IsMain(name) == name = "__main"

\* The callee test of call, were assert the reserved name.
IsAssertPlain(callee) == callee = "assert"

\* The callee test of call: a call of __assert is an Assert.
IsAssert(callee) == callee = "__assert"

functionStatement == Bind(And(FUNCTION, ID), [fn |-> "functionStatement.1"])

getStatementParser ==
    Or(<<returnStatement, functionStatement, ifStatement, whileStatement,
         varStatement, assignmentStatement, blockStatement, expressionStatement>>)

RECURSIVE Atoi(_)
\* strconv.Atoi on a string of digits
Atoi(digits) ==
    IF digits = <<>>
      THEN 0
      ELSE 10 * Atoi(SubSeq(digits, 1, Len(digits) - 1))
           + (CHOOSE d \in 0..9 : ToString(d) = digits[Len(digits)])

\* An operator token's value applied: func(l, r AST) AST.
Operate(op, l, r) ==
    IF op.k = "Assign" THEN Assign(l, r) ELSE [k |-> op.k, left |-> l, right |-> r]

RECURSIVE FoldRight(_, _)
\* infix, were it to group to the right.
FoldRight(result, ops) ==
    IF ops = <<>>
      THEN result
      ELSE Operate(Head(ops).op, result, FoldRight(Head(ops).right, Tail(ops)))

RECURSIVE Fold(_, _)
\* The loop of infix over ops: result = op(result).
Fold(result, ops) ==
    IF ops = <<>>
      THEN result
      ELSE Fold(Operate(Head(ops).op, result, Head(ops).right), Tail(ops))

\* The function literals handed to Map, applied to the parsed value.
MapCallback(cb, value) ==
    CASE cb.fn = "NUMBER" -> Number(Atoi(value))
      [] cb.fn = "idParser" -> Id(Text(value))
      [] cb.fn = "NOT" -> [k |-> "Not"]
      [] cb.fn = "operator" -> cb
      [] cb.fn = "unary.2" -> IF cb.not.nil THEN value ELSE Not(value)
      [] cb.fn = "parser" -> Block(value)

\* The function literals handed to Bind, applied to the parsed value: the
\* next parser.  A callback that panics is modelled by the parser that
\* panics as soon as it is run, which Bind does next.
Callback(cb, value) ==
    CASE cb.fn = "And" -> cb.parser2
      [] cb.fn = "Map" -> Constant(MapCallback(cb.callback, value))
      [] cb.fn = "token" -> And(ignored, Constant(value))
      [] cb.fn = "args.1" ->
            Bind(Many(And(COMMA, expression)), [fn |-> "args.2", arg |-> value])
      [] cb.fn = "args.2" -> Constant(<<cb.arg>> \o value)
      [] cb.fn = "call.1" ->
            And(LEFT_PAREN, Bind(args, [fn |-> "call.2", callee |-> Text(value)]))
      [] cb.fn = "call.2" ->
            IF IsAssert(cb.callee)
              THEN IF value = <<>>
                     THEN Error("runtime error: index out of range [0] with length 0")
                     ELSE And(RIGHT_PAREN, Constant(AssertNode(value[1])))
              ELSE And(RIGHT_PAREN, Constant(Call(cb.callee, value)))
      [] cb.fn = "atom.1" -> And(RIGHT_PAREN, Constant(value))
      [] cb.fn = "unary.1" -> Map(atom, [fn |-> "unary.2", not |-> value])
      [] cb.fn = "infix.1" ->
            Bind(Many(Bind(cb.operatOr,
                           [fn |-> "infix.2", termParser |-> cb.termParser])),
                 [fn |-> "infix.4", left |-> value])
      [] cb.fn = "infix.2" -> Bind(cb.termParser, [fn |-> "infix.3", op |-> value])
      [] cb.fn = "infix.3" -> Constant([op |-> cb.op, right |-> value])
      [] cb.fn = "infix.4" -> Constant(Fold(cb.left, value))
      [] cb.fn = "parameters.1" ->
            Bind(Many(And(COMMA, ID)), [fn |-> "parameters.2", param |-> Text(value)])
      [] cb.fn = "parameters.2" ->
            Constant(<<cb.param>> \o [i \in DOMAIN value |-> Text(value[i])])
      [] cb.fn = "returnStatement.1" -> And(SEMICOLON, Constant(Return(value)))
      [] cb.fn = "expressionStatement.1" -> And(SEMICOLON, Constant(value))
      [] cb.fn = "ifStatement.1" ->
            Bind(And(RIGHT_PAREN, statement),
                 [fn |-> "ifStatement.2", conditional |-> value])
      [] cb.fn = "ifStatement.2" ->
            Bind(And(ELSE_, statement),
                 [fn |-> "ifStatement.3", conditional |-> cb.conditional,
                  consequence |-> value])
      [] cb.fn = "ifStatement.3" ->
            Constant(If(cb.conditional, cb.consequence, value))
      [] cb.fn = "whileStatement.1" ->
            Bind(And(RIGHT_PAREN, statement),
                 [fn |-> "whileStatement.2", conditional |-> value])
      [] cb.fn = "whileStatement.2" -> Constant(While(cb.conditional, value))
      [] cb.fn = "varStatement.1" ->
            Bind(And(ASSIGN_OP, expression),
                 [fn |-> "varStatement.2", name |-> Text(value)])
      [] cb.fn = "varStatement.2" -> And(SEMICOLON, Constant(Var(cb.name, value)))
      [] cb.fn = "assignmentStatement.1" ->
            Bind(And(ASSIGN_OP, expression),
                 [fn |-> "assignmentStatement.2", name |-> Text(value)])
      [] cb.fn = "assignmentStatement.2" ->
            And(SEMICOLON, Constant(Assign(cb.name, value)))
      [] cb.fn = "blockStatement.1" -> And(RIGHT_BRACE, Constant(Block(value)))
      [] cb.fn = "functionStatement.1" ->
            Bind(And(LEFT_PAREN, parameters),
                 [fn |-> "functionStatement.2", name |-> Text(value)])
      [] cb.fn = "functionStatement.2" ->
            Bind(And(RIGHT_PAREN, blockStatement),
                 [fn |-> "functionStatement.3", name |-> cb.name,
                  parameters |-> value])
      [] cb.fn = "functionStatement.3" ->
            IF IsMain(cb.name) /\ value.k = "Block"
              THEN Constant(Main(value.statements))
              ELSE Constant(Function(cb.name, cb.parameters, value))

(***************************************************************************)
(* The parse functions of the combinators (part_000:53-142).               *)
(***************************************************************************)
RECURSIVE Parse(_, _)
RECURSIVE OrFrom(_, _, _)
RECURSIVE ManyLoop(_, _, _)
RECURSIVE OrFromLast(_, _, _)

\* One turn of the loop of Many: break (done), a panic passing through, or
\* the locals after the turn.
ManyTurn(p, results, currentSource) ==
    IF p.k = "nil"
      THEN [done |-> TRUE, panic |-> FALSE]
      ELSE LET result == Parse(p, currentSource)
           IN  IF result.r = "nil"
                 THEN [done |-> TRUE, panic |-> FALSE]
                 ELSE IF result.r = "panic"
                   THEN [done |-> TRUE, panic |-> TRUE, result |-> result]
                   ELSE [done |-> FALSE, panic |-> FALSE,
                         results |-> Append(results, result.value),
                         currentSource |-> result.source]

\* Many: the loop from the locals given to its return.
ManyLoop(p, results, currentSource) ==
    LET turn == ManyTurn(p, results, currentSource)
    IN  IF turn.panic
          THEN turn.result
          ELSE IF turn.done
            THEN ParseResult(results, currentSource)
            ELSE ManyLoop(p, turn.results, turn.currentSource)

\* Or, were the last alternative that succeeds to win.
OrFromLast(parsers, i, source) ==
    IF i > Len(parsers)
      THEN Nil
      ELSE LET later == OrFromLast(parsers, i + 1, source)
           IN  IF later.r # "nil"
                 THEN later
                 ELSE IF parsers[i].k = "nil" THEN Nil ELSE Parse(parsers[i], source)

\* Or: the loop over parsers[i..], each run on the same source.
OrFrom(parsers, i, source) ==
    IF i > Len(parsers)
      THEN Nil
      ELSE IF parsers[i].k = "nil"
        THEN OrFrom(parsers, i + 1, source)
        ELSE LET result == Parse(parsers[i], source)
             IN  IF result.r # "nil" THEN result ELSE OrFrom(parsers, i + 1, source)

\* p.Parse(source)
Parse(p, source) ==
    CASE p.k = "nil" -> Panicked("invalid memory address or nil pointer dereference")
      [] p.k = "Regexp" -> Match(source, p.pattern)
      [] p.k = "Constant" -> ParseResult(p.value, source)
      [] p.k = "Error" -> Panicked(p.message)
      [] p.k = "Or" -> OrFrom(p.parsers, 1, source)
      [] p.k = "Many" -> ManyLoop(p.parser, <<>>, source)
      [] p.k = "Bind" ->
            LET result == Parse(p.parser, source)
            IN  IF result.r # "ok"
                  THEN result
                  ELSE LET nextParser == Callback(p.callback, result.value)
                       IN  IF nextParser.k = "nil"
                             THEN Nil
                             ELSE Parse(nextParser, result.source)
      [] p.k = "Maybe" ->
            IF p.parser.k = "nil"
              THEN ParseResult([nil |-> TRUE], source)
              ELSE LET result == Parse(p.parser, source)
                   IN  IF result.r = "nil"
                         THEN ParseResult([nil |-> TRUE], source)
                         ELSE IF result.r = "panic"
                           THEN result
                           ELSE ParseResult([nil |-> FALSE, value |-> result.value],
                                            result.source)
      [] p.k = "Func" ->
            IF p.name = "expression"
              THEN Parse(getComparisonParser, source)
              ELSE Parse(getStatementParser, source)

\* ParseStringToCompletion without its test of the final index.
ParseStringToCompletionAnyTail(p, str) ==
    LET result == IF p.k = "nil" THEN Nil ELSE Parse(p, NewSource(str, 0))
    IN  CASE result.r = "nil" -> Panicked("Parse error: could not parse anything at all")
          [] result.r = "panic" -> result
          [] result.r = "ok" -> [r |-> "value", value |-> result.value]

\* Parser.ParseStringToCompletion: the value returned, or the panic.
ParseStringToCompletion(p, str) ==
    LET source == NewSource(str, 0)
    IN  IF p.k = "nil"
          THEN Panicked("Parse error: parser has nil Parse function")
          ELSE LET result == Parse(p, source)
               IN  IF result.r = "nil"
                     THEN Panicked("Parse error: could not parse anything at all")
                     ELSE IF result.r = "panic"
                       THEN result
                       ELSE IF result.source.index # Len(result.source.str)
                         THEN Panicked("Parse error at index "
                                       \o ToString(result.source.index)
                                       \o ", remaining: "
                                       \o Text(SubSeq(result.source.str,
                                                      result.source.index + 1,
                                                      Len(result.source.str))))
                         ELSE [r |-> "value", value |-> result.value]

(***************************************************************************)
(* Running the parsers.  ptest holds what is run: the parser, the text and *)
(* the cursor; "completion" runs p.ParseStringToCompletion(text), "parse"  *)
(* runs p.Parse at the cursor, "many" runs Many(p).Parse at the cursor one *)
(* turn of its loop at a time.                                             *)
(***************************************************************************)
MaxTextLen == 2
MaxManyTurns == 5
MaxOps == 3

Alphabet == {"1", "=", "!"}

Texts == UNION {[1..n -> Alphabet] : n \in 0..MaxTextLen}

\* The parsers the kernel is run on: patterns of the grammar, a parser that
\* consumes nothing, one that panics, the zero Parser, a sequence and an
\* option.
Alternatives ==
    {Regexp("[0-9]+"), Regexp("=="), Regexp("="), Constant(<<"c">>), Error("boom"),
     NilParser, And(Regexp("="), Regexp("[0-9]+")), Maybe(Regexp("!"))}

Choices ==
    {Or(ps) : ps \in UNION {[1..n -> Alternatives \ {Maybe(Regexp("!"))}] : n \in 0..3}}

Repeated == Alternatives \cup {Or(<<p, q>>) : p, q \in Alternatives}

Completed ==
    Alternatives \cup {Or(<<p, q>>) : p, q \in Alternatives}
    \cup {Many(p) : p \in {Regexp("="), Regexp("[0-9]+"),
                           Or(<<Regexp("=="), Regexp("!")>>), NilParser}}
    \cup {Map(Regexp("[0-9]+"), [fn |-> "NUMBER"])}

OperatorKinds == <<"Equal", "NotEqual", "Add", "Subtract", "Multiply", "Divide">>

\* The source text of a binary operator.
OperatorText(k) ==
    CASE k = "Equal" -> <<"=", "=">>
      [] k = "NotEqual" -> <<"!", "=">>
      [] k = "Add" -> <<"+">>
      [] k = "Subtract" -> <<"-">>
      [] k = "Multiply" -> <<"*">>
      [] k = "Divide" -> <<"/">>

RECURSIVE InfixText(_, _, _)
\* The text i op[1] i+1 op[2] ..., with gap between the tokens.
InfixText(ops, i, gap) ==
    IF ops = <<>>
      THEN <<ToString(i)>>
      ELSE <<ToString(i)>> \o gap \o OperatorText(Head(ops)) \o gap
           \o InfixText(Tail(ops), i + 1, gap)

Gaps == {<<>>, <<" ">>, <<" ", "/", "*", "+", "*", "/", "\n">>}

\* The text of atoms joined by ops, to be parsed as an expression.
InfixTest(ops, gap) ==
    [mode |-> "completion", parser |-> expression,
     source |-> NewSource(InfixText(ops, 1, gap), 0), ops |-> ops]

Identifiers ==
    {<<"f">>, <<"_", "_", "a", "s", "s", "e", "r", "t">>,
     <<"_", "_", "a", "s", "s", "e", "r", "t", "2">>, <<"a", "s", "s", "e", "r", "t">>,
     <<"_", "_", "m", "a", "i", "n">>, <<"_", "_", "m", "a", "i", "n", "_">>,
     <<"m", "a", "i", "n">>}

RECURSIVE Listed(_, _)
\* items[i], items[i+1], ... separated by commas.
Listed(items, i) ==
    IF i > Len(items)
      THEN <<>>
      ELSE items[i] \o (IF i < Len(items) THEN <<",", " ">> ELSE <<>>)
           \o Listed(items, i + 1)

Arguments ==
    <<[text |-> <<"1">>, node |-> Number(1)],
      [text |-> <<"x">>, node |-> Id("x")],
      [text |-> <<"2", "+", "3">>, node |-> Add(Number(2), Number(3))]>>

ArgTexts == [i \in 1..Len(Arguments) |-> Arguments[i].text]

ParamTexts == <<<<"a">>, <<"b">>, <<"c">>>>

Bodies ==
    {[text |-> <<>>, statements |-> <<>>],
     [text |-> <<"1", ";">>, statements |-> <<Number(1)>>],
     [text |-> <<"x", ";", " ", "r", "e", "t", "u", "r", "n", " ", "1", ";">>,
      statements |-> <<Id("x"), Return(Number(1))>>]}

\* name(args), to be parsed as an expression.
CallTest(id, n) ==
    [mode |-> "completion", parser |-> expression,
     source |-> NewSource(id \o <<"(">> \o Listed(SubSeq(ArgTexts, 1, n), 1) \o <<")">>, 0),
     callee |-> id, n |-> n]

\* function name(params) { body }, to be parsed as a whole program.
DeclarationTest(id, n, body) ==
    [mode |-> "completion", parser |-> parser,
     source |-> NewSource(<<"f", "u", "n", "c", "t", "i", "o", "n", " ">> \o id
                          \o <<"(">> \o Listed(SubSeq(ParamTexts, 1, n), 1)
                          \o <<")", " ", "{">> \o body.text \o <<"}">>, 0),
     name |-> id, n |-> n, body |-> body]

\* p.Parse(source) is called.
RunParse ==
    /\ ptest.mode = "parse"
    /\ presult.r = "none"
    /\ presult' = Parse(ptest.parser, ptest.source)
    /\ UNCHANGED <<emitVars, runVars, ptest, many>>

\* p.ParseStringToCompletion(str) is called.
RunToCompletion ==
    /\ ptest.mode = "completion"
    /\ presult.r = "none"
    /\ presult' = ParseStringToCompletion(ptest.parser, ptest.source.str)
    /\ UNCHANGED <<emitVars, runVars, ptest, many>>

\* Many(p).Parse(source) is called: results := []T{}; currentSource := source.
ManyStart ==
    /\ ptest.mode = "many"
    /\ many.pc = "idle"
    /\ many' = [pc |-> "loop", results |-> <<>>, currentSource |-> ptest.source]
    /\ UNCHANGED <<emitVars, runVars, ptest, presult>>

\* One turn of the loop of Many, or its return.
ManyIterate ==
    /\ ptest.mode = "many"
    /\ many.pc = "loop"
    /\ Len(many.results) < MaxManyTurns
    /\ LET turn == ManyTurn(ptest.parser, many.results, many.currentSource)
       IN  IF turn.done
             THEN /\ many' = [many EXCEPT !.pc = "returned"]
                  /\ presult' = IF turn.panic
                                  THEN turn.result
                                  ELSE ParseResult(many.results, many.currentSource)
             ELSE /\ many' = [many EXCEPT !.results = turn.results,
                                          !.currentSource = turn.currentSource]
                  /\ UNCHANGED presult
    /\ UNCHANGED <<emitVars, runVars, ptest>>

ParseInit ==
    /\ \/ \E p \in Choices, t \in Texts :
             \E i \in 0..Len(t) :
                ptest = [mode |-> "parse", parser |-> p, source |-> NewSource(t, i)]
       \/ \E p \in Repeated, t \in Texts :
             \E i \in 0..Len(t) :
                ptest = [mode |-> "many", parser |-> p, source |-> NewSource(t, i)]
       \/ \E p \in Completed, t \in Texts :
             ptest = [mode |-> "completion", parser |-> p, source |-> NewSource(t, 0)]
       \/ \E n \in 1..MaxOps :
             \E ops \in [1..n -> Range(OperatorKinds)], gap \in Gaps :
                ptest = InfixTest(ops, gap)
       \/ \E id \in Identifiers, n \in 0..Len(Arguments) : ptest = CallTest(id, n)
       \/ \E id \in Identifiers, n \in 0..Len(ParamTexts), body \in Bodies :
             ptest = DeclarationTest(id, n, body)
    /\ presult = [r |-> "none"]
    /\ many = [pc |-> "idle"]
    /\ prog = Block(<<>>)
    /\ todo = <<>>
    /\ out = <<>>
    /\ labelCounter = 0
    /\ envs = <<NewEnvironment>>
    /\ status = "parse"
    /\ panicMsg = ""
    /\ labels = <<>>
    /\ spans = <<>>
    /\ declared = {}
    /\ slots = <<>>
    /\ cpu = [state |-> "off"]
    /\ hist = <<>>

ParseNext == RunParse \/ RunToCompletion \/ ManyStart \/ ManyIterate

SpecParse == ParseInit /\ [][ParseNext]_vars

(***************************************************************************)
(* Running the emitted lines.  The lines of out are the assembly of an ARM *)
(* program; once emission is done the machine enters it at main: as the C  *)
(* runtime would.  A register or stack word holds a Word, or Junk when its *)
(* content is whatever was left there.  A word is held as the signed       *)
(* integer with the same 32 bits.  bl to a symbol the program does not     *)
(* define calls a library function, which follows the calling convention:  *)
(* it returns to the next line with sp, fp and the stack from sp upwards   *)
(* as they were, a result in r0, and anything in r1-r3, ip, lr, the flags  *)
(* and the stack below sp.                                                 *)
(***************************************************************************)
Word(n) == [def |-> TRUE, v |-> n]

Junk == [def |-> FALSE, v |-> 0]

StackTop == 4 * 1024

\* The address in lr when main is entered: returning to it ends the run.
Runtime == Word(0)

\* The results a library function may return.
ReturnValues == {0, 9}

Symbols == {"main", "f", "k", "g", "h", "v", "putchar"}

Literals == 0..9

Offsets == {0 - 4 * i : i \in 1..8}

Slots == {4 * i : i \in 0..3}

Offset(base, by) == IF base.def THEN Word(base.v + by) ELSE Junk

Load(mem, address) == IF address \in DOMAIN mem THEN mem[address] ELSE Junk

Store(mem, address, word) ==
    [a \in DOMAIN mem \cup {address} |-> IF a = address THEN word ELSE mem[a]]

\* udiv on the signed images of two unsigned words; division by zero
\* gives 0.
Udiv(n, d) ==
    CASE d = 0 -> 0
      [] d = 1 -> n
      [] d < 0 -> IF n < 0 /\ n >= d THEN 1 ELSE 0
      [] d > 1 /\ n >= 0 -> n \div d
      [] d > 1 /\ n < 0 ->
            LET half == 2147483647
            IN  2 * (half \div d) + ((2 * (half % d) + 2 + n) \div d)

Arith(mnemonic, a, b) ==
    IF ~(a.def /\ b.def)
      THEN Junk
      ELSE Word(CASE mnemonic = "add" -> a.v + b.v
                  [] mnemonic = "sub" -> a.v - b.v
                  [] mnemonic = "mul" -> a.v * b.v
                  [] mnemonic = "udiv" -> Udiv(a.v, b.v))

Executing == status = "done" /\ cpu.state = "on" /\ cpu.pc \in 1..Len(out)

Line == out[cpu.pc]

NeverRun == [seen |-> FALSE, r0 |-> Junk, sp |-> Junk, fp |-> Junk]

Snapshot == [seen |-> TRUE, r0 |-> cpu.r0, sp |-> cpu.sp, fp |-> cpu.fp]

\* The machine goes from cpu to next by running the line at pc.
Step(next) ==
    /\ cpu' = next
    /\ hist' = [hist EXCEPT ![cpu.pc] = Snapshot]
    /\ UNCHANGED <<emitVars, parseVars>>

Advance(c) == [c EXCEPT !.pc = cpu.pc + 1]

\* An access through a register that holds no address: what the machine
\* does from here on is not determined by the program.
Undefined == [cpu EXCEPT !.state = "undefined"]

\* The C runtime calls main: sp at the top of the stack, lr into the
\* runtime, and in the other registers whatever the runtime left.
ExecStart ==
    /\ status = "done"
    /\ cpu.state = "off"
    /\ \E i \in 1..Len(out) :
          /\ out[i] = "main:"
          /\ cpu' = [state |-> "on", pc |-> i, r0 |-> Junk, r1 |-> Junk, r2 |-> Junk,
                     r3 |-> Junk, ip |-> Junk, sp |-> Word(StackTop), fp |-> Junk,
                     lr |-> Runtime, z |-> Junk, mem |-> <<>>]
    /\ hist' = [i \in 1..Len(out) |-> NeverRun]
    /\ UNCHANGED <<emitVars, parseVars>>

\* A blank line, a directive or a label: nothing to run.
ExecSkip ==
    /\ Executing
    /\ \/ Line = ""
       \/ \E name \in Symbols : Line \in {".global " \o name, name \o ":"}
       \/ \E l \in 0..(labelCounter - 1) : Line = LabelString([value |-> l]) \o ":"
    /\ Step(Advance(cpu))

\* ldr r0, =n
ExecLdrConstant ==
    /\ Executing
    /\ \E n \in Literals :
          /\ Line = "  ldr r0, =" \o ToString(n)
          /\ Step(Advance([cpu EXCEPT !.r0 = Word(n)]))

\* ldr r0, [fp, #offset]
ExecLdrLocal ==
    /\ Executing
    /\ \E offset \in Offsets :
          /\ Line = "  ldr r0, [fp, #" \o ToString(offset) \o "]"
          /\ Step(IF cpu.fp.def
                    THEN Advance([cpu EXCEPT !.r0 = Load(cpu.mem, cpu.fp.v + offset)])
                    ELSE Undefined)

\* str r0, [fp, #offset] and str r0, [sp, #slot]
ExecStr ==
    /\ Executing
    /\ \E base \in {"fp", "sp"}, offset \in Offsets \cup Slots :
          /\ Line = "  str r0, [" \o base \o ", #" \o ToString(offset) \o "]"
          /\ Step(IF cpu[base].def
                    THEN Advance([cpu EXCEPT
                                    !.mem = Store(cpu.mem, cpu[base].v + offset, cpu.r0)])
                    ELSE Undefined)

\* cmp r0, #0; cmp r0, #1; cmp r0, r1
ExecCmp ==
    /\ Executing
    /\ \E with \in {[text |-> "#0", word |-> Word(0)], [text |-> "#1", word |-> Word(1)],
                    [text |-> "r1", word |-> cpu.r1]} :
          /\ Line = "  cmp r0, " \o with.text
          /\ Step(Advance([cpu EXCEPT
                             !.z = IF cpu.r0.def /\ with.word.def
                                     THEN Word(IF cpu.r0.v = with.word.v THEN 1 ELSE 0)
                                     ELSE Junk]))

\* Whether a condition holds; with the flags unknown it may and may not.
Holds(condition, taken) ==
    cpu.z.def => (taken <=> ((cpu.z.v = 1) <=> (condition = "eq")))

\* moveq r0, #imm and movne r0, #imm
ExecMovConditional ==
    /\ Executing
    /\ \E condition \in {"eq", "ne"},
          imm \in {[text |-> "#0", v |-> 0], [text |-> "#1", v |-> 1],
                   [text |-> "#'.'", v |-> 46], [text |-> "#'F'", v |-> 70]} :
          /\ Line = "  mov" \o condition \o " r0, " \o imm.text
          /\ \E taken \in BOOLEAN :
                /\ Holds(condition, taken)
                /\ Step(Advance(IF taken THEN [cpu EXCEPT !.r0 = Word(imm.v)] ELSE cpu))

\* mov fp, sp; mov sp, fp; mov r0, #0
ExecMov ==
    /\ Executing
    /\ \/ Line = "  mov fp, sp" /\ Step(Advance([cpu EXCEPT !.fp = cpu.sp]))
       \/ Line = "  mov sp, fp" /\ Step(Advance([cpu EXCEPT !.sp = cpu.fp]))
       \/ Line = "  mov r0, #0" /\ Step(Advance([cpu EXCEPT !.r0 = Word(0)]))

RECURSIVE Pushed(_, _, _)
\* The stack after the registers given are stored from address upwards.
Pushed(mem, address, registers) ==
    IF registers = <<>>
      THEN mem
      ELSE Pushed(Store(mem, address, cpu[Head(registers)]), address + 4,
                  Tail(registers))

\* push {r0, ip}; push {fp, lr}; push {r0, r1, r2, r3}
ExecPush ==
    /\ Executing
    /\ \E list \in {[text |-> "r0, ip", registers |-> <<"r0", "ip">>],
                    [text |-> "fp, lr", registers |-> <<"fp", "lr">>],
                    [text |-> "r0, r1, r2, r3",
                     registers |-> <<"r0", "r1", "r2", "r3">>]} :
          /\ Line = "  push {" \o list.text \o "}"
          /\ Step(IF cpu.sp.def
                    THEN LET low == cpu.sp.v - 4 * Len(list.registers)
                         IN  Advance([cpu EXCEPT
                                        !.sp = Word(low),
                                        !.mem = Pushed(cpu.mem, low, list.registers)])
                    ELSE Undefined)

\* The machine after the registers given are loaded from sp upwards.
Popped(registers) ==
    [field \in DOMAIN cpu |->
        IF \E i \in DOMAIN registers : registers[i] = field
          THEN Load(cpu.mem,
                    cpu.sp.v + 4 * ((CHOOSE i \in DOMAIN registers :
                                        registers[i] = field) - 1))
          ELSE IF field = "sp"
            THEN Word(cpu.sp.v + 4 * Len(registers))
            ELSE cpu[field]]

\* pop {r1, ip}; pop {r0, r1, r2, r3}
ExecPop ==
    /\ Executing
    /\ \E list \in {[text |-> "r1, ip", registers |-> <<"r1", "ip">>],
                    [text |-> "r0, r1, r2, r3",
                     registers |-> <<"r0", "r1", "r2", "r3">>]} :
          /\ Line = "  pop {" \o list.text \o "}"
          /\ Step(IF cpu.sp.def THEN Advance(Popped(list.registers)) ELSE Undefined)

\* pop {fp, pc}: the return.
ExecReturn ==
    /\ Executing
    /\ Line = "  pop {fp, pc}"
    /\ Step(IF ~cpu.sp.def
              THEN Undefined
              ELSE LET to == Load(cpu.mem, cpu.sp.v + 4)
                       back == [cpu EXCEPT !.fp = Load(cpu.mem, cpu.sp.v),
                                           !.sp = Word(cpu.sp.v + 8)]
                   IN  IF to = Runtime
                         THEN [back EXCEPT !.state = "exited"]
                         ELSE IF to.def /\ to.v \in 1..Len(out)
                           THEN [back EXCEPT !.pc = to.v]
                           ELSE [back EXCEPT !.state = "undefined"])

\* add, sub, mul, udiv r0, r1, r0
ExecArith ==
    /\ Executing
    /\ \E mnemonic \in {"add", "sub", "mul", "udiv"} :
          /\ Line = "  " \o mnemonic \o " r0, r1, r0"
          /\ Step(Advance([cpu EXCEPT !.r0 = Arith(mnemonic, cpu.r1, cpu.r0)]))

\* sub sp, sp, #16
ExecSubSp ==
    /\ Executing
    /\ Line = "  sub sp, sp, #16"
    /\ Step(Advance([cpu EXCEPT !.sp = Offset(cpu.sp, 0 - 16)]))

\* b label; beq label
ExecBranch ==
    /\ Executing
    /\ \E l \in 0..(labelCounter - 1) :
          LET label == LabelString([value |-> l])
          IN  /\ Line \in {"  b " \o label, "  beq " \o label}
              /\ \E to \in 1..Len(out), taken \in BOOLEAN :
                    /\ out[to] = label \o ":"
                    /\ IF Line = "  b " \o label THEN taken ELSE Holds("eq", taken)
                    /\ Step(IF taken THEN [cpu EXCEPT !.pc = to] ELSE Advance(cpu))

Defined(name) == \E i \in 1..Len(out) : out[i] = name \o ":"

\* bl to a function of the program
ExecCall ==
    /\ Executing
    /\ \E name \in Symbols :
          /\ Line = "  bl " \o name
          /\ \E to \in 1..Len(out) :
                /\ out[to] = name \o ":"
                /\ Step([cpu EXCEPT !.lr = Word(cpu.pc + 1), !.pc = to])

\* bl to a library function
ExecLibraryCall ==
    /\ Executing
    /\ \E name \in Symbols :
          /\ Line = "  bl " \o name
          /\ ~Defined(name)
          /\ \E result \in ReturnValues :
             Step(IF cpu.sp.def
                    THEN Advance([cpu EXCEPT
                                    !.r0 = Word(result), !.r1 = Junk, !.r2 = Junk,
                                    !.r3 = Junk, !.ip = Junk, !.lr = Junk, !.z = Junk,
                                    !.mem = [a \in {b \in DOMAIN cpu.mem : b >= cpu.sp.v}
                                               |-> cpu.mem[a]]])
                    ELSE Undefined)

ExecNext ==
    \/ ExecStart
    \/ ExecSkip
    \/ ExecLdrConstant
    \/ ExecLdrLocal
    \/ ExecStr
    \/ ExecCmp
    \/ ExecMovConditional
    \/ ExecMov
    \/ ExecPush
    \/ ExecPop
    \/ ExecReturn
    \/ ExecArith
    \/ ExecSubSp
    \/ ExecBranch
    \/ ExecCall
    \/ ExecLibraryCall

MaxRunArgs == 4

\* The programs run: main asserts and calls g on k(7) and 8; k calls g on
\* the arguments given, which use its parameter p and its local y, binary
\* operators, and calls of f and of library functions.
RunF ==
    Function("f", <<"a", "b">>,
      Block(<<Var("x", Subtract(Id("a"), Id("b"))),
              If(Equal(Id("x"), Number(0)),
                 Block(<<Return(Number(1))>>),
                 Block(<<Assign("x", Multiply(Id("x"), Number(2)))>>)),
              While(NotEqual(Id("x"), Number(0)),
                    Assign("x", Divide(Id("x"), Number(3)))),
              Return(Not(Id("x")))>>))

RunArgs ==
    {Subtract(Id("p"), Id("y")),
     Call("f", <<Number(2), Number(1)>>),
     Call("g", <<Multiply(Number(2), Number(3)), Call("h", <<>>)>>)}

RunK(arguments) ==
    Function("k", <<"p">>,
      Block(<<Var("y", Add(Id("p"), Number(1))), Return(Call("g", arguments))>>))

RunMain ==
    Main(<<AssertNode(Number(1)),
           Call("g", <<Call("k", <<Number(7)>>), Number(8)>>)>>)

RunPrograms ==
    {Block(<<RunF, RunK(arguments), RunMain>>) :
        arguments \in UNION {[1..n -> RunArgs] : n \in 0..MaxRunArgs}}

\* Nested binary expressions: main asserts o1(o2(9, 2), o3(x, 3)) where x is
\* a number or what a library function returns.
RunOperands == {Number(8), Call("h", <<>>)}

RunExprs ==
    {[k |-> o1, left |-> [k |-> o2, left |-> Number(9), right |-> Number(2)],
                right |-> [k |-> o3, left |-> x, right |-> Number(3)]] :
        o1 \in BinaryKinds, o2 \in BinaryKinds, o3 \in BinaryKinds,
        x \in RunOperands}

ExprPrograms == {Block(<<Main(<<AssertNode(e)>>)>>) : e \in RunExprs}

MaxLoops == 2

\* Locals declared in a loop body and in the branches of an if:
\*   function v(n) { var i = n; while (i != 0) { var t = i * 2; i = i - 1; }
\*                   if (i) { var a = 1; } else { var b = 2; } return i; }
RunV ==
    Function("v", <<"n">>,
      Block(<<Var("i", Id("n")),
              While(NotEqual(Id("i"), Number(0)),
                    Block(<<Var("t", Multiply(Id("i"), Number(2))),
                            Assign("i", Subtract(Id("i"), Number(1)))>>)),
              If(Id("i"), Block(<<Var("a", Number(1))>>),
                          Block(<<Var("b", Number(2))>>)),
              Return(Id("i"))>>))

LocalsPrograms ==
    {Block(<<RunV, Main(<<Call("v", <<Number(n)>>)>>)>>) : n \in 0..MaxLoops}

RunInit == Compiling(RunPrograms \cup ExprPrograms \cup LocalsPrograms)

RunNext == EmitNext \/ ExecNext

SpecRun == RunInit /\ [][RunNext]_vars

(***************************************************************************)
(* Properties of the parsers.                                              *)
(***************************************************************************)
Tested(mode) == ptest.mode = mode /\ presult.r # "none"

\* What p returns when run from index 0 of the text given to
\* ParseStringToCompletion.
FromStart ==
    IF ptest.parser.k = "nil"
      THEN Nil
      ELSE Parse(ptest.parser, NewSource(ptest.source.str, 0))

Remaining(source) == Text(SubSeq(source.str, source.index + 1, Len(source.str)))

\* C2: ParseStringToCompletion(p, s) returns a value if and only if p run
\* from index 0 returns a success whose index is |s|, and the value is that
\* success's; when p fails the call aborts with a parse error, and when p
\* succeeds with index < |s| it aborts with the parse error that reports
\* that index and the remaining tail.
C2_WholeInputConsumption ==
    Tested("completion") =>
        /\ presult.r = "value" <=>
              (FromStart.r = "ok" /\ FromStart.source.index = Len(ptest.source.str))
        /\ presult.r = "value" => presult.value = FromStart.value
        /\ FromStart.r = "nil" =>
              /\ presult.r = "panic"
              /\ presult.msg \in {"Parse error: could not parse anything at all",
                                  "Parse error: parser has nil Parse function"}
        /\ (FromStart.r = "ok" /\ FromStart.source.index < Len(ptest.source.str)) =>
              presult = Panicked("Parse error at index "
                                 \o ToString(FromStart.source.index)
                                 \o ", remaining: " \o Remaining(FromStart.source))

\* A parser has consumed part of the text and stopped short of its end.
C2_Witness ==
    /\ Tested("completion")
    /\ FromStart.r = "ok"
    /\ FromStart.source.index > 0
    /\ FromStart.source.index < Len(ptest.source.str)
    /\ presult.r = "panic"

\* What alternative i of the Or under test returns at the cursor the Or is
\* run at; an alternative without a Parse function counts as failing.
Alternative(i) ==
    IF ptest.parser.parsers[i].k = "nil"
      THEN Nil
      ELSE Parse(ptest.parser.parsers[i], ptest.source)

\* The alternatives before i all fail at the cursor.
FirstToSucceed(i) ==
    /\ Alternative(i).r = "ok"
    /\ \A j \in 1..(i - 1) : Alternative(j).r = "nil"

\* C3: Or(p1, ..., pn) run at cursor c returns exactly what the
\* lowest-indexed alternative that succeeds at c returns there, whatever the
\* later alternatives are, and fails if and only if every alternative fails
\* at c.
C3_OrLeftBiased ==
    Tested("parse") =>
        /\ \A i \in 1..Len(ptest.parser.parsers) :
              FirstToSucceed(i) => presult = Alternative(i)
        /\ presult = Nil <=>
              \A i \in 1..Len(ptest.parser.parsers) : Alternative(i) = Nil

\* An alternative that consumed input before failing is followed by the one
\* that wins, and after it comes one that would have returned something
\* else (another success, or a panic).
C3_Witness ==
    /\ Tested("parse")
    /\ \E i, j \in 1..Len(ptest.parser.parsers) :
          /\ 1 < i /\ i < j
          /\ ptest.parser.parsers[1].k = "Bind"
          /\ FirstToSucceed(i)
          /\ Alternative(j).r # "nil"
          /\ Alternative(j) # Alternative(i)
          /\ presult = Alternative(i)

RECURSIVE RunsOf(_, _, _, _)
\* results[i..] are the values of the consecutive successful runs of p from
\* source on, and last is the cursor where p first fails.
RunsOf(p, source, results, last) ==
    LET run == IF p.k = "nil" THEN Nil ELSE Parse(p, source)
    IN  IF results = <<>>
          THEN run.r = "nil" /\ last = source
          ELSE /\ run.r = "ok"
               /\ run.value = Head(results)
               /\ RunsOf(p, run.source, Tail(results), last)

\* C4: Many(p) run at any cursor terminates and returns a success whose
\* value lists the values of the consecutive successful runs of p up to its
\* first failure and whose cursor is the one after the last of them.  A run
\* of p from a cursor is a function of that cursor, so the loop ends exactly
\* when every successful run advances the cursor, that is when the loop
\* never holds more results than characters were left at the start.
C4_ManyAlwaysSucceeds ==
    ptest.mode = "many" =>
        /\ many.pc = "loop" =>
              Len(many.results) <= Len(ptest.source.str) - ptest.source.index
        /\ (many.pc = "returned" /\ presult.r # "panic") =>
              /\ presult.r = "ok"
              /\ RunsOf(ptest.parser, ptest.source, presult.value, presult.source)

\* The precedence level of a binary operator: the higher binds tighter.
Level(k) ==
    CASE k \in {"Equal", "NotEqual"} -> 1
      [] k \in {"Add", "Subtract"} -> 2
      [] k \in {"Multiply", "Divide"} -> 3

RECURSIVE Tree(_, _, _)
\* The tree of the atoms lo..hi joined by ops[lo..hi-1]: its root is the
\* last of the operators that bind loosest.
Tree(ops, lo, hi) ==
    IF lo = hi
      THEN Number(lo)
      ELSE LET loosest == {i \in lo..(hi - 1) :
                              \A j \in lo..(hi - 1) : Level(ops[i]) <= Level(ops[j])}
               root == CHOOSE i \in loosest : \A j \in loosest : j <= i
           IN  [k |-> ops[root], left |-> Tree(ops, lo, root),
                right |-> Tree(ops, root + 1, hi)]

IsInfixTest == "ops" \in DOMAIN ptest

\* C5: an expression of atoms and binary operators without parentheses
\* parses to the tree in which * and / bind tighter than + and -, these
\* tighter than == and !=, and every level groups to the left.
C5_PrecedenceAndAssociativity ==
    (IsInfixTest /\ presult.r # "none") =>
        presult = [r |-> "value", value |-> Tree(ptest.ops, 1, Len(ptest.ops) + 1)]

\* Parsed: a tighter operator between two of one looser level, as in
\* 1 - 2 * 3 - 4.
C5_Witness ==
    /\ IsInfixTest
    /\ presult.r = "value"
    /\ Len(ptest.ops) = 3
    /\ Level(ptest.ops[1]) = Level(ptest.ops[3])
    /\ Level(ptest.ops[2]) > Level(ptest.ops[1])
    /\ presult.value.k = ptest.ops[3]
    /\ presult.value.left.k = ptest.ops[1]

IsCallTest == "callee" \in DOMAIN ptest

IsDeclarationTest == "name" \in DOMAIN ptest

ArgNodes(n) == [i \in 1..n |-> Arguments[i].node]

ParamNodes(n) == [i \in 1..n |-> Text(ParamTexts[i])]

\* C6: a call of __assert never parses to a Call: it parses to the Assert
\* of its (first) argument, and without an argument the parse aborts; a
\* declaration named __main parses to the Main of the body's statements;
\* every other callee gives a Call and every other name a Function.
C6_ReservedRewrites ==
    /\ (IsCallTest /\ presult.r # "none") =>
          IF Text(ptest.callee) = "__assert"
            THEN IF ptest.n = 0
                   THEN presult.r = "panic"
                   ELSE presult = [r |-> "value", value |-> AssertNode(Arguments[1].node)]
            ELSE presult = [r |-> "value",
                            value |-> Call(Text(ptest.callee), ArgNodes(ptest.n))]
    /\ (IsDeclarationTest /\ presult.r # "none") =>
          IF Text(ptest.name) = "__main"
            THEN presult = [r |-> "value",
                            value |-> Block(<<Main(ptest.body.statements)>>)]
            ELSE presult = [r |-> "value",
                            value |-> Block(<<Function(Text(ptest.name),
                                                       ParamNodes(ptest.n),
                                                       Block(ptest.body.statements))>>)]

\* __assert(1) has been parsed, to an Assert.
C6_Witness ==
    /\ IsCallTest
    /\ Text(ptest.callee) = "__assert"
    /\ ptest.n = 1
    /\ presult.r = "value"
    /\ presult.value.k = "Assert"

(***************************************************************************)
(* Properties of emission.                                                 *)
(***************************************************************************)
SpansOf(kinds) == {i \in DOMAIN spans : spans[i].node.k \in kinds}

Lines(sp) == SubSeq(out, sp.first, sp.last)

\* The span of the i-th child of the Emit call of span sp, if it returned.
ChildSpans(sp, i) ==
    {j \in DOMAIN spans : spans[j].path = Append(sp.path, i)}

\* C1 (label freshness): the n-th call of NewLabel returns .L<n-1>, the
\* counter equals the number of calls made, so every label returned differs
\* from every label returned earlier; and no label is placed (printed as
\* "<label>:") more than once in the output.
C1_LabelFreshness ==
    /\ Len(labels) = labelCounter
    /\ \A i \in DOMAIN labels : labels[i] = ".L" \o ToString(i - 1)
    /\ \A i, j \in DOMAIN labels : i # j => labels[i] # labels[j]
    /\ \A i, j \in DOMAIN out :
          (i # j /\ \E l \in DOMAIN labels : out[i] = labels[l] \o ":")
              => out[i] # out[j]

\* C1's case: a finished compilation of two functions, each with an If nested
\* in a While, all eight labels placed.
C1_Witness ==
    /\ status = "done"
    /\ Len(labels) >= 8
    /\ Cardinality({sp \in SpansOf({"Function"}) : TRUE}) >= 2
    /\ \A l \in DOMAIN labels : \E i \in DOMAIN out : out[i] = labels[l] \o ":"

\* The frame of the claim around the lines of one returned Emit call of a
\* function declaration: the directives, the three-line prologue, the body,
\* the three-line epilogue.
FullFrame(sp, name) ==
    LET ls == Lines(sp)
        n == Len(ls)
    IN  /\ \E d \in 2..n :
              /\ ls[d - 1] = ".global " \o name
              /\ ls[d] = name \o ":"
              /\ n >= d + 6
              /\ SubSeq(ls, d + 1, d + 3)
                    = <<"  push {fp, lr}", "  mov fp, sp", "  push {r0, r1, r2, r3}">>
              /\ \A j \in 1..(d - 2) : ls[j] = ""
        /\ n >= 3
        /\ SubSeq(ls, n - 2, n) = <<"  mov sp, fp", "  mov r0, #0", "  pop {fp, pc}">>

\* C7 as claimed: every function declaration whose emission completed,
\* Function or Main, has the full frame around its body.
C7_FrameDisciplineAll ==
    \A i \in SpansOf({"Function", "Main"}) :
        FullFrame(spans[i], IF spans[i].node.k = "Main" THEN "main"
                            ELSE spans[i].node.name)

\* C7 (frame discipline), amended: the lines of every completed Function are
\* a blank line, .global <name>, <name>:, the three prologue lines, the lines
\* of the body's Emit call, and the three epilogue lines; a completed Main
\* (a declaration named __main) has only .global main, main:, push {fp, lr}
\* before its statements and mov r0, #0, pop {fp, pc} after them.
C7_FrameDiscipline ==
    /\ \A i \in SpansOf({"Function"}) :
          LET sp == spans[i] IN
          /\ FullFrame(sp, sp.node.name)
          /\ out[sp.first] = ""
          /\ \E b \in ChildSpans(sp, 1) :
                /\ spans[b].first = sp.first + 6
                /\ spans[b].last = sp.last - 3
    /\ \A i \in SpansOf({"Main"}) :
          LET sp == spans[i]
              n == Len(sp.node.statements)
          IN
          /\ sp.last - sp.first + 1 >= 5
          /\ SubSeq(out, sp.first, sp.first + 2)
                = <<".global main", "main:", "  push {fp, lr}">>
          /\ SubSeq(out, sp.last - 1, sp.last) = <<"  mov r0, #0", "  pop {fp, pc}">>
          /\ ~FullFrame(sp, "main")
          /\ n > 0 =>
                /\ \E b \in ChildSpans(sp, 1) : spans[b].first = sp.first + 3
                /\ \E b \in ChildSpans(sp, n) : spans[b].last = sp.last - 2

\* C7's case: a completed function whose body holds a nested function and
\* ends in an explicit Return.
C7_Witness ==
    \E i \in SpansOf({"Function"}) :
        /\ \E j \in SpansOf({"Function"}) :
              /\ spans[j].scope = spans[i].path
              /\ spans[j].first > spans[i].first
        /\ \E j \in SpansOf({"Return"}) :
              /\ spans[j].scope = spans[i].path
              /\ spans[j].last = spans[i].last - 3

ArityDiagnostics ==
    {"More than 4 params is not supported", "More than 4 arguments are not supported"}

\* A Function with more than four parameters or a Call with more than four
\* arguments.
ArityOverflow(n) ==
    \/ n.k = "Function" /\ Len(n.parameters) > 4
    \/ n.k = "Call" /\ Len(n.args) > 4

RECURSIVE HasOverflow(_)
\* Whether n or a node below it is an arity overflow.
HasOverflow(n) ==
    \/ ArityOverflow(n)
    \/ \E i \in DOMAIN Children(n) : HasOverflow(Children(n)[i])

RECURSIVE NamesUsed(_)
\* The names the Id and Assign nodes at or below n look up.
NamesUsed(n) ==
    (IF n.k = "Id" THEN {n.value} ELSE IF n.k = "Assign" THEN {n.name} ELSE {})
    \cup UNION {NamesUsed(Children(n)[i]) : i \in DOMAIN Children(n)}

\* C9 as claimed: a program that contains an arity overflow ends, when its
\* compilation ends, in an abort with an arity diagnostic.
C9_AnyOverflowGivesArityAbort ==
    (HasOverflow(prog) /\ status # "emit")
        => (status = "panic" /\ panicMsg \in ArityDiagnostics)

\* The node whose Emit is about to run is an arity overflow.
AtOverflow ==
    /\ status = "emit"
    /\ todo # <<>>
    /\ Top.t = "node"
    /\ ArityOverflow(Top.node)

\* C9 (arity overflow is fatal), amended: the Emit of a Function with more
\* than four parameters or of a Call with more than four arguments aborts at
\* once with its arity diagnostic and prints nothing, an arity diagnostic has
\* no other origin, and a program holding such a node never compiles to the
\* end; its abort is the arity one unless an undefined variable, met earlier
\* in the walk, has aborted the compilation first.
C9_ArityOverflowFatal ==
    /\ [](status = "done" => ~HasOverflow(prog))
    /\ []((status = "panic" /\ panicMsg \notin ArityDiagnostics)
            => \E n \in NamesUsed(prog) : panicMsg = "Undefined variable: " \o n)
    /\ [][/\ AtOverflow
             => /\ status' = "panic"
                /\ out' = out
                /\ panicMsg' = (IF Top.node.k = "Call"
                                  THEN "More than 4 arguments are not supported"
                                  ELSE "More than 4 params is not supported")
          /\ (status' = "panic" /\ panicMsg' \in ArityDiagnostics) => AtOverflow
         ]_vars

\* C9's case: the abort on a call of five arguments inside a function whose
\* prologue is already printed.
C9_Witness ==
    /\ status = "panic"
    /\ panicMsg = "More than 4 arguments are not supported"
    /\ Len(out) >= 6
    /\ Top.node.k = "Call" /\ Len(Top.node.args) = 5

\* The name an Id or Assign is about to look up, if that is the next step.
TopIsLookup ==
    /\ todo # <<>>
    /\ \/ Top.t = "node" /\ Top.node.k = "Id"
       \/ Top.t = "assign"

AtLookup == status = "emit" /\ TopIsLookup

LookupName == IF Top.t = "assign" THEN Top.name ELSE Top.node.value

ScopeParams(scope) ==
    IF scope # <<>> /\ NodeAt(prog, scope).k = "Function"
      THEN Range(NodeAt(prog, scope).parameters)
      ELSE {}

\* C10 as claimed: the name resolves exactly if the lookup is in the body of
\* a function declaration and the name is one of its parameters or was
\* declared by a Var emitted earlier in that body.
C10_ResolvesIffBoundInFunction ==
    AtLookup =>
        (LookupName \in DOMAIN envs[Top.env].locals
            <=> /\ Top.scope # <<>>
                /\ \/ LookupName \in ScopeParams(Top.scope)
                   \/ <<Top.scope, LookupName>> \in declared)

RECURSIVE Owner(_)
\* The innermost Function around a scope, skipping Main declarations, which
\* emit their statements with the environment they were given; <<>> if none.
Owner(scope) ==
    IF scope = <<>> \/ NodeAt(prog, scope).k = "Function"
      THEN scope
      ELSE Owner(SubSeq(scope, 1, Len(scope) - 1))

Bound(scope, name) ==
    \/ name \in ScopeParams(Owner(scope))
    \/ \E d \in declared : d[2] = name /\ Owner(d[1]) = Owner(scope)

LookupLine(off) ==
    IF Top.t = "assign"
      THEN "  str r0, [fp, #" \o ToString(off) \o "]"
      ELSE "  ldr r0, [fp, #" \o ToString(off) \o "]"

\* C10 (undefined variable is fatal, environments are per Function), amended:
\* an Id or Assign resolves exactly if its name is a parameter of the
\* innermost enclosing Function or was declared by a Var emitted earlier
\* under that same Function and outside any Function nested in it; a Main
\* declaration opens no environment, so its statements count as statements
\* of what encloses it, and top-level statements share main's environment
\* in the same way.  Resolved, the ldr / str with the recorded offset is
\* printed; otherwise emission aborts with "Undefined variable: <name>".
\* A name bound only in another Function is never resolvable.
C10_UndefinedVariableFatal ==
    [][AtLookup =>
          IF Bound(Top.scope, LookupName)
            THEN /\ status' = "emit"
                 /\ LookupName \in DOMAIN envs[Top.env].locals
                 /\ out' = Append(out, LookupLine(envs[Top.env].locals[LookupName]))
            ELSE /\ status' = "panic"
                 /\ panicMsg' = "Undefined variable: " \o LookupName
                 /\ out' = out
      ]_vars

\* C10's case: the abort on a name that is looked up inside a nested Function
\* and is bound only in the Function around it.
C10_Witness ==
    /\ status = "panic"
    /\ TopIsLookup
    /\ Top.scope # <<>>
    /\ Bound(SubSeq(Top.scope, 1, Len(Top.scope) - 1), LookupName)
    /\ ~Bound(Top.scope, LookupName)

(***************************************************************************)
(* Properties of the emitted code when run.                                *)
(***************************************************************************)
ArgRegisters == <<"r0", "r1", "r2", "r3">>

\* The Call nodes with 2 to 4 arguments whose Emit has returned.
WideCalls == {j \in SpansOf({"Call"}) : Len(spans[j].node.args) \in 2..4}

\* The lines of the i-th argument of the call of span sp.
ArgSpan(sp, i) == spans[CHOOSE j \in ChildSpans(sp, i) : TRUE]

\* The Emit call that returned last.  A span and the lines it covers never
\* change once recorded, so what holds of each span when it is the last
\* holds of all spans always.
LastReturned == {j \in DOMAIN spans : j = Len(spans)}

\* The lines of a call with 2 to 4 arguments: sub sp, sp, #16, then each
\* argument's code in source order with str r0, [sp, #4*i] right after it,
\* then pop {r0, r1, r2, r3}, then bl callee.
C8_EmittedSequence ==
    \A j \in WideCalls \cap LastReturned :
        LET sp == spans[j]
            n == Len(sp.node.args)
        IN  /\ \A i \in 1..n :
                  /\ Cardinality(ChildSpans(sp, i)) = 1
                  /\ ArgSpan(sp, i).node = sp.node.args[i]
                  /\ ArgSpan(sp, i).first <= ArgSpan(sp, i).last
                  /\ out[ArgSpan(sp, i).last + 1]
                        = "  str r0, [sp, #" \o ToString(4 * (i - 1)) \o "]"
            /\ out[sp.first] = "  sub sp, sp, #16"
            /\ ArgSpan(sp, 1).first = sp.first + 1
            /\ \A i \in 1..(n - 1) : ArgSpan(sp, i + 1).first = ArgSpan(sp, i).last + 2
            /\ out[ArgSpan(sp, n).last + 2] = "  pop {r0, r1, r2, r3}"
            /\ out[sp.last] = "  bl " \o sp.node.callee
            /\ sp.last = ArgSpan(sp, n).last + 3

\* When the bl of such a call is about to run, register r_i holds what the
\* code of argument i left in r0, that is what r0 held when the str after
\* that code last ran.
C8_ArgumentsArrive ==
    cpu.state = "on" =>
        \A j \in {c \in WideCalls : spans[c].last = cpu.pc} :
            \A i \in 1..Len(spans[j].node.args) :
                LET stored == hist[ArgSpan(spans[j], i).last + 1]
                IN  stored.seen /\ cpu[ArgRegisters[i]] = stored.r0

\* C8: for a Call with n arguments, 2 <= n <= 4, the emitted lines are
\* sub sp, sp, #16, then for each argument in source order its complete
\* code followed at once by str r0, [sp, #4*i], then pop {r0, r1, r2, r3},
\* then bl callee; and when the code is run argument i is in register r_i at
\* the bl, also when arguments hold binary operators or calls.
C8_CallArgumentOrder == C8_EmittedSequence /\ C8_ArgumentsArrive

\* The machine is at the bl of a call with four arguments, among them a
\* binary operator and a call, with four defined words in r0-r3 that are
\* not all the same.
C8_Witness ==
    \E j \in WideCalls :
        /\ Len(spans[j].node.args) = 4
        /\ \E a, b \in 1..4 :
              /\ spans[j].node.args[a].k = "Call"
              /\ spans[j].node.args[b].k \in BinaryKinds
        /\ cpu.state = "on"
        /\ cpu.pc = spans[j].last
        /\ \A i \in 1..4 : cpu[ArgRegisters[i]].def
        /\ \E a, b \in 1..4 : cpu[ArgRegisters[a]] # cpu[ArgRegisters[b]]

\* The binary nodes whose Emit has returned and whose last line is about to
\* run.
BinaryEnding ==
    {j \in SpansOf(BinaryKinds) : Executing /\ spans[j].last = cpu.pc}

\* The span of the left (i = 1) or right (i = 2) operand of the span sp.
Operand(sp, i) == spans[CHOOSE j \in ChildSpans(sp, i) : TRUE]

\* r is the 32-bit word that the operator of the node kind gives on the words
\* a and b, all three read through their signed images.  Divide reads its
\* operands as unsigned numbers: a divisor with the top bit set is larger
\* than any a >= 0.  Nothing is asked of a division by zero, nor of a
\* division of a word with the top bit set.
Agrees(kind, a, b, r) ==
    CASE kind = "Add" -> r = a + b
      [] kind = "Subtract" -> r = a - b
      [] kind = "Multiply" -> r = a * b
      [] kind = "Divide" -> /\ (a >= 0 /\ b > 0) => r = a \div b
                            /\ (a >= 0 /\ b < 0) => r = 0
      [] kind = "Equal" -> r = IF a = b THEN 1 ELSE 0
      [] kind = "NotEqual" -> r = IF a # b THEN 1 ELSE 0

RECURSIVE Valued(_)
\* The expressions built of numbers and binary operators only.
Valued(n) ==
    \/ n.k = "Number"
    \/ /\ n.k \in BinaryKinds
       /\ Valued(n.left)
       /\ Valued(n.right)

RECURSIVE Value(_)
\* The value of such an expression, left operator right.
Value(n) ==
    IF n.k = "Number"
      THEN n.value
      ELSE LET a == Value(n.left)
               b == Value(n.right)
           IN  CASE n.k = "Add" -> a + b
                 [] n.k = "Subtract" -> a - b
                 [] n.k = "Multiply" -> a * b
                 [] n.k = "Divide" -> IF a >= 0 /\ b > 0 THEN a \div b ELSE 0
                 [] n.k = "Equal" -> IF a = b THEN 1 ELSE 0
                 [] n.k = "NotEqual" -> IF a # b THEN 1 ELSE 0

RECURSIVE Determined(_)
\* No division in n is by zero or of a negative number.
Determined(n) ==
    \/ n.k = "Number"
    \/ /\ n.k \in BinaryKinds
       /\ Determined(n.left)
       /\ Determined(n.right)
       /\ n.k = "Divide" => (Value(n.left) >= 0 /\ Value(n.right) # 0)

\* The lines of a binary node: the left operand's code, push {r0, ip}, the
\* right operand's code, pop {r1, ip}, the combining lines.
BinaryLayout(sp) ==
    /\ Cardinality(ChildSpans(sp, 1)) = 1
    /\ Cardinality(ChildSpans(sp, 2)) = 1
    /\ Operand(sp, 1).node = sp.node.left
    /\ Operand(sp, 2).node = sp.node.right
    /\ Operand(sp, 1).first = sp.first
    /\ Operand(sp, 1).first <= Operand(sp, 1).last
    /\ out[Operand(sp, 1).last + 1] = "  push {r0, ip}"
    /\ Operand(sp, 2).first = Operand(sp, 1).last + 2
    /\ Operand(sp, 2).first <= Operand(sp, 2).last
    /\ out[Operand(sp, 2).last + 1] = "  pop {r1, ip}"
    /\ Operand(sp, 2).last + 1 < sp.last

\* The step that runs the last line of the binary node of span sp leaves in
\* r0 the node's operator applied to what the left operand's code left in r0
\* (at the push) and what the right operand's code left in r0 (at the pop).
BinaryResult(sp) ==
    LET a == hist[Operand(sp, 1).last + 1]
        b == hist[Operand(sp, 2).last + 1]
    IN  /\ a.seen /\ b.seen
        /\ (a.r0.def /\ b.r0.def) =>
              /\ cpu'.r0.def
              /\ Agrees(sp.node.k, a.r0.v, b.r0.v, cpu'.r0.v)
        /\ (Valued(sp.node) /\ Determined(sp.node)) =>
              cpu'.r0 = Word(Value(sp.node))

\* C11: a binary node a op b is emitted as a's code, push, b's code, pop,
\* combine, so that a is evaluated first and b second, and running it leaves
\* a op b in r0 (left minus right for Subtract, left divided by right,
\* unsigned, for Divide), never b op a, also when a and b are themselves
\* binary expressions or calls.
C11_LeftOpRight ==
    [][\A j \in BinaryEnding : BinaryLayout(spans[j]) /\ BinaryResult(spans[j])]_vars

\* The machine has just run a Divide whose operands are binary expressions
\* with different values, the left one the larger, and r0 holds the left
\* value divided by the right one, which is not the right divided by the
\* left.
C11_Witness ==
    /\ cpu.state = "on"
    /\ \E j \in SpansOf({"Divide"}) :
          LET sp == spans[j]
              a == hist[Operand(sp, 1).last + 1].r0
              b == hist[Operand(sp, 2).last + 1].r0
          IN  /\ cpu.pc = sp.last + 1
              /\ hist[sp.last].seen
              /\ sp.node.left.k \in BinaryKinds
              /\ sp.node.right.k \in BinaryKinds
              /\ a.def /\ b.def
              /\ b.v > 0 /\ a.v > b.v
              /\ cpu.r0 = Word(a.v \div b.v)
              /\ cpu.r0 # Word(b.v \div a.v)

\* The Vars emitted with the environment of a Function: the environment main
\* hands to the top-level Emit is the first one, each Function makes its own.
FunctionSlots == {i \in DOMAIN slots : slots[i].env > 1}

\* The offsets recorded within one Function are -24, -32, ... in the order
\* the Vars are emitted: pairwise distinct and below the parameter slots.
SlotsRecorded ==
    \A i \in FunctionSlots :
        LET earlier == {j \in 1..i : slots[j].env = slots[i].env}
        IN  /\ slots[i].offset = 0 - 16 - 8 * Cardinality(earlier)
            /\ slots[i].offset < 0 - 16
            /\ out[slots[i].line] = "  push {r0, ip}"

\* When the push of a Var is about to run, the word it stores r0 into, the
\* one at sp - 8, is the one at fp + the offset recorded for the Var.
SlotsStored ==
    Executing =>
        \A i \in FunctionSlots :
            slots[i].line = cpu.pc =>
                /\ cpu.sp.def
                /\ cpu.fp.def
                /\ cpu.sp.v - 8 = cpu.fp.v + slots[i].offset

\* C12: inside a function body each Var records next_local_offset - 4 and
\* lowers next_local_offset by 8, from -20 on, so the offsets are -24, -32,
\* ..., and whenever the push {r0, ip} of a Var runs it stores r0 at
\* fp + the recorded offset, wherever the Var stands in the body, in the
\* branches of an If and in the body of a While too.
C12_LocalSlotAgreement == SlotsRecorded /\ SlotsStored

ExpressionKinds == {"Number", "Id", "Not", "Call", "Assert"} \cup BinaryKinds

\* The step ends a run of the code of span sp: it runs the last line and goes
\* on to the line after it, or it is the return of the function that the
\* last line, a bl, called.
Completing(sp) ==
    /\ Executing
    /\ cpu'.state = "on"
    /\ cpu'.pc = sp.last + 1
    /\ cpu.pc = sp.last \/ Line = "  pop {fp, pc}"

\* Such a step leaves sp as it was when the first line of the code was about
\* to run.
Balanced(sp) ==
    /\ hist'[sp.first].seen
    /\ hist'[sp.first].sp.def
    /\ cpu'.sp = hist'[sp.first].sp

\* What r0 holds after the code of a Number (its value), of a Not (1 when
\* the operand's code left 0, else 0) and of a call of a function of the
\* program (what the function left there).
ResultInR0(sp) ==
    /\ sp.node.k = "Number" => cpu'.r0 = Word(sp.node.value)
    /\ sp.node.k = "Not" =>
          LET term == hist[sp.last - 2].r0
          IN  /\ out[sp.last - 2] = "  cmp r0, #0"
              /\ term.def => cpu'.r0 = Word(IF term.v = 0 THEN 1 ELSE 0)
    /\ (sp.node.k = "Call" /\ Line = "  pop {fp, pc}") => cpu'.r0 = cpu.r0

ExpressionBalance ==
    \A j \in SpansOf(ExpressionKinds) :
        Completing(spans[j]) => (Balanced(spans[j]) /\ ResultInR0(spans[j]))

\* When the pop {r1, ip} of a binary node is about to run, sp is where the
\* push {r0, ip} of that node left it and the word there is the one pushed.
PushMatchesPop ==
    Executing =>
        \A j \in SpansOf(BinaryKinds) :
            LET push == Operand(spans[j], 1).last + 1
                pop == Operand(spans[j], 2).last + 1
            IN  pop = cpu.pc =>
                    /\ out[push] = "  push {r0, ip}"
                    /\ out[pop] = "  pop {r1, ip}"
                    /\ hist[push].seen
                    /\ cpu.sp.def
                    /\ cpu.sp = Offset(hist[push].sp, 0 - 8)
                    /\ Load(cpu.mem, cpu.sp.v) = hist[push].r0

\* When the pop {r0, r1, r2, r3} of a call is about to run, sp is where the
\* sub sp, sp, #16 of that call left it.
SubMatchesPop ==
    Executing =>
        \A j \in WideCalls :
            spans[j].last - 1 = cpu.pc =>
                /\ out[spans[j].first] = "  sub sp, sp, #16"
                /\ Line = "  pop {r0, r1, r2, r3}"
                /\ hist[spans[j].first].seen
                /\ cpu.sp.def
                /\ cpu.sp = Offset(hist[spans[j].first].sp, 0 - 16)

\* At every bl sp is a multiple of 8.
AlignedAtBl ==
    (Executing /\ \E name \in Symbols : Line = "  bl " \o name) =>
        (cpu.sp.def /\ cpu.sp.v % 8 = 0)

\* C13: running the code of any expression (Number, Id, Not, the six binary
\* nodes, Call with 0 to 4 arguments, Assert, nested in any way), the
\* functions called returning with sp restored, leaves sp as it was before
\* the expression started and the result in r0; each push {r0, ip} is undone
\* by the pop {r1, ip} of the same node and each sub sp, sp, #16 by the
\* pop {r0, r1, r2, r3} of the same call; sp is 8-byte aligned at every bl.
C13_ExpressionStackBalance ==
    /\ [](PushMatchesPop /\ SubMatchesPop /\ AlignedAtBl)
    /\ [][ExpressionBalance]_vars

\* A call with four arguments, among them a binary node and a call, has
\* just been run to its end, pushes, scratch area and nested calls included,
\* and sp is back where it was at the call's first line.
C13_Witness ==
    /\ cpu.state = "on"
    /\ \E j \in WideCalls :
          LET sp == spans[j]
          IN  /\ Len(sp.node.args) = 4
              /\ \E i \in 1..4 : sp.node.args[i].k \in BinaryKinds
              /\ \E i \in 1..4 : sp.node.args[i].k = "Call"
              /\ cpu.pc = sp.last + 1
              /\ hist[sp.first].seen
              /\ hist[sp.last].seen
              /\ cpu.sp.def
              /\ cpu.sp = hist[sp.first].sp

====
